---- MODULE Spec2Model ----
(***************************************************************************)
(* State-machine model of the list-harvesting engine and of the batch      *)
(* action executor of backend/app/instagram_sync.py and                    *)
(* backend/app/instagram.py.                                               *)
(*                                                                         *)
(* A harvest job is one call of instagram_get_followers_api,               *)
(* instagram_get_followers or InstagramBot.get_followers (the *_following  *)
(* functions are line-for-line copies with the relation name changed).     *)
(* The remote platform (the rendered dialog, the internal endpoint) is the *)
(* environment: every extraction pass and every page draws what the        *)
(* platform shows from a bounded set.                                      *)
(*                                                                         *)
(* The HTTP handlers of backend/app/main.py are modelled over the users    *)
(* and sessions tables of backend/app/models.py, one step per stretch of   *)
(* a handler between two awaits.                                           *)
(***************************************************************************)
EXTENDS Integers, Sequences, FiniteSets, TLC

\* ------------------------------------------------------------------------
\* Bounds of the model
\* ------------------------------------------------------------------------
MaxHandles == 2
MaxLinks == 2
MaxLimit == 1
MaxRequests == 3
MaxChunk == 2
BigList == 600
MaxBatch == 3
MaxCancelAt == 2
MaxExits == 3
MaxJobs == 4
MaxCursors == 2
MaxSessions == 1
MaxCalls == 2
MaxNames == 2

\* ------------------------------------------------------------------------
\* Program constants
\* ------------------------------------------------------------------------
max_no_new_scrolls == 5
MaxScrollAttempts == 500
DefaultLimit == 999999
BotPerScroll == 12
BotMaxScrolls == 50
StatusOK == 200
max_workers == 3
max_daily_unfollows == 50
StatusUnauthorized == 401
StatusTooManyRequests == 429
StatusServerError == 500
StatusError == StatusOK + 300   \* a status other than 200

None == "<None>"
Names == {"", "A"}
Handles == 1..MaxHandles
Limits == (0..MaxLimit) \cup {DefaultLimit}

Min(a, b) == IF a <= b THEN a ELSE b
Max(a, b) == IF a >= b THEN a ELSE b
SeqsUpTo(S, n) == UNION {[1..k -> S] : k \in 0..n}

\* Python truthiness: `not v` for an optional string (None and '' are falsy)
\* and for an optional handle or cursor (written 0 when absent or empty).
FalsyStr(v) == v = None \/ v = ""
FalsyId(v) == v = 0

\* Python s[:n]
PySlice(s, n) ==
    IF n >= 0 THEN SubSeq(s, 1, Min(n, Len(s)))
    ELSE SubSeq(s, 1, Max(0, Len(s) + n))

UsernamesOf(list) == {list[k].username : k \in 1..Len(list)}

VARIABLES
    fn,                 \* entry function of the harvest job: "api" | "dom" | "bot"
    pc,                 \* position of the harvest job
    limit,              \* the requested upper bound
    session_cookies,    \* the cookie list passed to the job
    is_logged_in,       \* InstagramBot.is_logged_in
    api_followers,      \* instagram_get_followers_api: followers
    api_seen_usernames, \* instagram_get_followers_api: seen_usernames
    next_max_id,        \* instagram_get_followers_api: pagination cursor
    request_count,      \* instagram_get_followers_api: request_count
    followers,          \* instagram_get_followers / InstagramBot.get_followers: followers
    seen_usernames,     \* ditto: seen_usernames
    scroll_attempts,    \* instagram_get_followers: scroll_attempts
    no_new_users_count, \* instagram_get_followers: no_new_users_count
    passes_left,        \* InstagramBot.get_followers: iterations left of range(min(limit // 12, 50))
    result,             \* what the job returned (or the exception it raised)
    sighted,            \* history: first sightings made by the running strategy, in order
    resighted,          \* history: a handle was sighted again with other attributes
    rendered_runs,      \* history: number of calls of instagram_get_followers in this job
    first_status,       \* history: HTTP status of the first page request (0: none yet, -1: raised)
    page_failure,       \* history: how a page request of the job failed ("none": none did)
    remote_n,           \* surface double: size N of the remote list
    chunk,              \* surface double: rows revealed by one scroll / one page
    loaded,             \* surface double: rows rendered so far
    batch_fn,           \* which batch function runs ("sync", "api", "bot"; "none": no batch)
    batch_pc,           \* position of the batch job
    user_data,          \* the input list (usernames / user_data)
    i,                  \* index of the next item of the for loop (0-based, as enumerate)
    results,            \* results
    successful,         \* successful
    failed,             \* failed
    batch_result,       \* what the batch returned
    now,                \* the clock read by datetime.now()
    delays,             \* history: indexes of the items after which the batch slept
    handled,            \* history: usernames the loop body has run for, in order
    cancel_requested,   \* caller: the request that awaits the job was cancelled
    gathered_at_cancel, \* history: the entities the job held when it was cancelled
    job,                \* browser job: the function that runs ("none": no job)
    rpc,                \* browser job: its position
    playwright,         \* browser job: the local `playwright` is set
    browser,            \* browser job: the local `browser` is set
    drivers_running,    \* platform: Playwright drivers started and not stopped
    browsers_open,      \* platform: browsers launched and not closed
    launches,           \* history: browsers launched since the caller's call
    exits,              \* history: the exits taken since the caller's call
    endpoint,           \* HTTP: the endpoint that serves the request ("none": no request)
    db_session_active,  \* HTTP: the session row of the request exists and is active
    submitted,          \* history: the functions the endpoint handed to the executor
    http_status,        \* HTTP: the status of the response (0: not answered yet)
    expired_during,     \* platform: the strategy that ran when the remote session expired
                        \* ("none": the session is valid)
    in_flight,          \* batch: calls of the unfollow function begun and not returned
    work_queue,         \* executor: the work items no worker thread has taken yet
    running,            \* executor: the work items its worker threads run
    submissions,        \* executor: number of work items submitted so far
    db_cookies,         \* database: the cookies column of the session row
    today_unfollows,    \* database: successful unfollow actions logged today
    action_log,         \* database: the Action rows the request added
    users_changed,      \* database: usernames whose User row the request wrote
    page_requests,      \* history: the page requests made (max_id carried, 0: none;
                        \* entities held when the request was made)
    page_responses,     \* history: what came back for each page request
    naps,               \* history: sleeps made between the iterations of the harvest loop
    last_pass,          \* history: elements that raised, unseen handles shown and
                        \* entities added in the last extraction pass
    discarded,          \* history: the entities the endpoint strategy held when it
                        \* handed the job to the rendered strategy
    users_table,        \* database: the users table, one row per username
    sessions,           \* database: the sessions table, by session_id
    calls,              \* HTTP: the requests received and not answered yet
    reply,              \* HTTP: the response sent in the last step (NoReply: none)
    logged_out          \* history: the session ids a logout request was answered for

harvestVars == <<fn, pc, limit, session_cookies, is_logged_in,
                 api_followers, api_seen_usernames, next_max_id, request_count,
                 followers, seen_usernames, scroll_attempts, no_new_users_count,
                 passes_left, result, sighted, resighted, rendered_runs, first_status, page_failure>>
surfaceVars == <<remote_n, chunk, loaded>>
batchVars == <<batch_fn, batch_pc, user_data, i, results, successful, failed,
               batch_result, now, delays, handled>>
callerVars == <<cancel_requested, gathered_at_cancel>>
resourceVars == <<job, rpc, playwright, browser, drivers_running, browsers_open,
                  launches, exits>>
endpointVars == <<endpoint, db_session_active, submitted, http_status>>
platformVars == <<expired_during>>
flightVars == <<in_flight>>
poolVars == <<work_queue, running, submissions>>
dbVars == <<db_cookies, today_unfollows, action_log, users_changed>>
traceVars == <<page_requests, page_responses, naps, last_pass, discarded>>
storeVars == <<users_table, sessions, calls, reply, logged_out>>
otherVars == <<callerVars, resourceVars, endpointVars, platformVars, flightVars, poolVars,
               dbVars, traceVars, storeVars>>
vars == <<harvestVars, surfaceVars, batchVars, otherVars>>

\* ------------------------------------------------------------------------
\* What the platform can show
\* ------------------------------------------------------------------------
\* An <a href> element of the dialog.  kind "link": href is the list of path
\* segments of the link ("/alice/" is <<alice>>, "/alice/followers/" is
\* <<alice, 0>>, "/" is <<>>); kind "nohref": get_attribute returns None;
\* kind "throws": reading the element raises.  full_name stands for the
\* attributes scraped around the link ("" when their extraction fails).
Elements ==
    [kind : {"link"}, href : {<<h>> : h \in Handles}, full_name : Names] \cup
    [kind : {"link"}, href : {<<>>, <<1, 0>>}, full_name : {""}] \cup
    [kind : {"nohref", "throws"}, href : {<<>>}, full_name : {""}]

\* A user object of an endpoint page (username 0: the key is missing).
ApiUsers == [username : 0..MaxHandles, full_name : Names]
Pk(h) == 100 + h

\* href.strip('/').split('/')[0]
UsernameFromHref(href) == IF Len(href) = 0 THEN 0 ELSE href[1]

\* ------------------------------------------------------------------------
\* History: the first sightings, written from the definition.
\* A sighting at position k of a pass is a first sighting when its handle
\* is neither among the earlier first sightings nor at a position j < k.
\* ------------------------------------------------------------------------
RECURSIVE KeepAt(_, _, _)
KeepAt(ents, keep, k) ==
    IF k > Len(ents) THEN <<>>
    ELSE (IF k \in keep THEN <<ents[k]>> ELSE <<>>) \o KeepAt(ents, keep, k + 1)

FirstSightings(prev, ents) ==
    LET earlier == UsernamesOf(prev) IN
    prev \o KeepAt(ents,
                   {k \in 1..Len(ents) :
                        /\ ents[k].username \notin earlier
                        /\ \A j \in 1..(k - 1) : ents[j].username # ents[k].username},
                   1)

\* A sighting of the pass differs from an earlier sighting of its handle.
SeenAgain(prev, ents) ==
    LET earlier == {prev[j] : j \in 1..Len(prev)} \cup {ents[j] : j \in 1..Len(ents)} IN
    \E e \in {ents[k] : k \in 1..Len(ents)} :
        \E f \in earlier : f.username = e.username /\ f # e

\* The sightings of a rendered pass: the links whose handle could be read.
Readable(link) ==
    /\ link.kind = "link"
    /\ ~FalsyId(UsernameFromHref(link.href))

RECURSIVE DomSightings(_)
DomSightings(links) ==
    IF links = <<>> THEN <<>>
    ELSE (IF Readable(Head(links))
          THEN <<[username |-> UsernameFromHref(Head(links).href),
                  full_name |-> Head(links).full_name]>>
          ELSE <<>>) \o DomSightings(Tail(links))

RECURSIVE ApiSightings(_)
ApiSightings(users) ==
    IF users = <<>> THEN <<>>
    ELSE (IF ~FalsyId(Head(users).username)
          THEN <<[username |-> Head(users).username,
                  full_name |-> Head(users).full_name,
                  user_id |-> Pk(Head(users).username)]>>
          ELSE <<>>) \o ApiSightings(Tail(users))

\* ------------------------------------------------------------------------
\* The deduplication step of the three harvest loops
\* ------------------------------------------------------------------------
\* Mutant of SkipLink: the membership test on the seen set is lost.
SkipLinkNoDedup(username, seen) == FalsyId(username)

\* instagram_get_followers: `if not username_from_href or username_from_href in seen_usernames: continue`
SkipLink(username, seen) == FalsyId(username) \/ username \in seen

\* Mutant of AppendFollower: the handle is marked as seen and the entity
\* is not appended.
AppendFollowerLost(list, entity) == list

\* followers.append({...})
AppendFollower(list, entity) == Append(list, entity)

\* Mutant of ProcessLink: a later sighting of a handle overwrites the
\* attributes stored at its first sighting.
ProcessLinkOverwrite(st, link) ==
    IF link.kind # "link" THEN st
    ELSE LET username_from_href == UsernameFromHref(link.href)
             entity == [username |-> username_from_href, full_name |-> link.full_name]
         IN IF FalsyId(username_from_href) THEN st
            ELSE IF username_from_href \in st.seen
            THEN [seen |-> st.seen,
                  followers |-> [k \in 1..Len(st.followers) |->
                                    IF st.followers[k].username = username_from_href
                                    THEN entity ELSE st.followers[k]]]
            ELSE [seen |-> st.seen \cup {username_from_href},
                  followers |-> AppendFollower(st.followers, entity)]

\* One element of `for link in user_links:` of instagram_get_followers.
ProcessLink(st, link) ==
    IF link.kind = "throws" THEN st                      \* except Exception: continue
    ELSE IF link.kind = "nohref" THEN st                 \* if not href: continue
    ELSE LET username_from_href == UsernameFromHref(link.href) IN
         IF SkipLink(username_from_href, st.seen) THEN st
         ELSE [seen |-> st.seen \cup {username_from_href},
               followers |-> AppendFollower(st.followers,
                                [username |-> username_from_href,
                                 full_name |-> link.full_name])]

\* Mutant of ProcessLinks: an element that raises ends the pass.
RECURSIVE ProcessLinksUntilThrow(_, _)
ProcessLinksUntilThrow(st, links) ==
    IF links = <<>> THEN st
    ELSE IF Head(links).kind = "throws" THEN st
    ELSE ProcessLinksUntilThrow(ProcessLink(st, Head(links)), Tail(links))

RECURSIVE ProcessLinks(_, _)
ProcessLinks(st, links) ==
    IF links = <<>> THEN st
    ELSE ProcessLinks(ProcessLink(st, Head(links)), Tail(links))

\* instagram_get_followers_api: `if username_str and username_str not in seen_usernames:`
TakeUser(username_str, seen) == ~FalsyId(username_str) /\ username_str \notin seen

\* One element of `for user in users:` of instagram_get_followers_api.
ProcessUser(st, user) ==
    IF TakeUser(user.username, st.seen)
    THEN [seen |-> st.seen \cup {user.username},
          followers |-> AppendFollower(st.followers,
                           [username |-> user.username,
                            full_name |-> user.full_name,
                            user_id |-> Pk(user.username)])]
    ELSE st

RECURSIVE ProcessUsers(_, _)
ProcessUsers(st, users) ==
    IF users = <<>> THEN st
    ELSE ProcessUsers(ProcessUser(st, Head(users)), Tail(users))

\* `for element in user_elements:` of InstagramBot.get_followers; the loop
\* is left as soon as len(followers) >= limit after an append.
RECURSIVE BotProcessElements(_, _, _)
BotProcessElements(st, elements, lim) ==
    IF elements = <<>> THEN st
    ELSE LET element == Head(elements) IN
         IF element.kind # "link"                        \* raises, caught: continue
         THEN BotProcessElements(st, Tail(elements), lim)
         ELSE LET username_from_href == UsernameFromHref(element.href) IN
              IF ~FalsyId(username_from_href) /\ username_from_href \notin st.seen
              THEN LET st2 == [seen |-> st.seen \cup {username_from_href},
                               followers |-> AppendFollower(st.followers,
                                                [username |-> username_from_href,
                                                 full_name |-> element.full_name])]
                   IN IF Len(st2.followers) >= lim THEN st2
                      ELSE BotProcessElements(st2, Tail(elements), lim)
              ELSE BotProcessElements(st, Tail(elements), lim)

\* ------------------------------------------------------------------------
\* Loop exits of instagram_get_followers
\* ------------------------------------------------------------------------
\* Mutant of ReachedEndOfList: the threshold is tested one pass late.
ReachedEndOfListLate(idle) == idle > max_no_new_scrolls

\* `if no_new_users_count >= max_no_new_scrolls: break`
ReachedEndOfList(idle) == idle >= max_no_new_scrolls

\* Mutant of SafetyStop: the ceiling is tested one pass late.
SafetyStopLate(attempts) == attempts > MaxScrollAttempts

\* `if scroll_attempts >= 500: break`
SafetyStop(attempts) == attempts >= MaxScrollAttempts

\* range(min(limit // 12, 50))
BotPasses(lim) == Min(lim \div BotPerScroll, BotMaxScrolls)

\* ------------------------------------------------------------------------
\* Session cookies
\* ------------------------------------------------------------------------
CookieJars ==
    { <<[name |-> "sessionid", value |-> "s"]>>,
      <<[name |-> "csrftoken", value |-> "t"], [name |-> "sessionid", value |-> "s"]>> }

\* `for cookie in session_cookies: if cookie.get('name') == 'csrftoken': ... break`
RECURSIVE CsrfToken(_)
CsrfToken(cookies) ==
    IF cookies = <<>> THEN None
    ELSE IF Head(cookies).name = "csrftoken" THEN Head(cookies).value
    ELSE CsrfToken(Tail(cookies))

\* Mutant of MissingToken: the job goes on without a token.
MissingTokenIgnored(csrf_token) == FALSE

\* `if not csrf_token:`
MissingToken(csrf_token) == FalsyStr(csrf_token)

\* ------------------------------------------------------------------------
\* Results
\* ------------------------------------------------------------------------
NoResult == [returned |-> FALSE]
\* Mutant of Failure: the failure carries the list collected so far.
FailureWithList(msg) == [success |-> FALSE, error |-> msg, followers |-> followers]

\* `return {'success': False, 'error': str(e)}`
Failure(msg) == [success |-> FALSE, error |-> msg]
DomSuccess(list, lim) ==
    [success |-> TRUE, followers |-> PySlice(list, lim), count |-> Len(PySlice(list, lim))]
\* Mutant of ApiSuccess: the result of the endpoint strategy carries no mark.
ApiSuccessUnmarked(list, lim) ==
    [success |-> TRUE, followers |-> PySlice(list, lim), count |-> Len(PySlice(list, lim))]

\* `return {'success': True, 'followers': followers[:limit], 'count': ..., 'method': 'api'}`
ApiSuccess(list, lim) ==
    [success |-> TRUE, followers |-> PySlice(list, lim), count |-> Len(PySlice(list, lim)),
     method |-> "api"]
BotSuccess(list, lim) == [followers |-> PySlice(list, lim)]

\* ------------------------------------------------------------------------
\* instagram_get_followers_api
\* ------------------------------------------------------------------------
\* Mutant of FallBack: the error is treated like an exception of the page
\* request (break, then the success return) and the scraper is not called.
BreakInsteadOfFallBack ==
    /\ pc' = "api_exit"
    /\ UNCHANGED <<rendered_runs, api_followers, api_seen_usernames, next_max_id,
                   sighted, resighted>>

\* The fallback `return instagram_get_followers(username, session_cookies, limit, headless)`:
\* the locals of instagram_get_followers_api are never read again.
FallBack ==
    /\ pc' = "dom_setup"
    /\ rendered_runs' = rendered_runs + 1
    /\ api_followers' = <<>>
    /\ api_seen_usernames' = {}
    /\ next_max_id' = 0
    /\ sighted' = <<>>
    /\ resighted' = FALSE

\* From the start of the function to the first test of the while loop.
\* profile: what the profile page gives ("error": launch or goto raises,
\* "no_user_id": no id in the page scripts, "ok": a user id).
ApiSetup(profile) ==
    /\ pc = "api_setup"
    /\ IF profile = "error" \/ profile = "no_user_id" \/ MissingToken(CsrfToken(session_cookies))
       THEN /\ FallBack
            /\ UNCHANGED request_count
       ELSE /\ pc' = "api_loop"
            /\ api_followers' = <<>>
            /\ api_seen_usernames' = {}
            /\ next_max_id' = 0
            /\ request_count' = 0
            /\ sighted' = <<>>
            /\ resighted' = FALSE
            /\ UNCHANGED rendered_runs
    /\ UNCHANGED <<fn, limit, session_cookies, is_logged_in, followers, seen_usernames,
                   scroll_attempts, no_new_users_count, passes_left, result, first_status, page_failure>>

\* A response of the endpoint: kind "raises" (page.request.get raises),
\* else a response with a status, a body that parses or not, and the page.
Responses ==
    [kind : {"raises"}, status : {0}, json_ok : {FALSE}, users : {<<>>},
     has_more : {FALSE}, next_max_id : {0}] \cup
    [kind : {"response"}, status : {StatusError}, json_ok : {FALSE}, users : {<<>>},
     has_more : {FALSE}, next_max_id : {0}] \cup
    [kind : {"response"}, status : {StatusOK}, json_ok : {FALSE}, users : {<<>>},
     has_more : {FALSE}, next_max_id : {0}] \cup
    [kind : {"response"}, status : {StatusOK}, json_ok : {TRUE},
     users : SeqsUpTo(ApiUsers, MaxLinks), has_more : BOOLEAN, next_max_id : 0..1]

\* How the page attempt fails: page.request.get raises (a timeout), the
\* status is not 200, response.json() raises (a malformed body); "none"
\* when the page is read.
PageFailure(resp) ==
    IF resp.kind = "raises" THEN "raises"
    ELSE IF resp.status # StatusOK THEN "status"
    ELSE IF ~resp.json_ok THEN "malformed"
    ELSE "none"

\* Mutant of LastPage: a page without cursor that reports more is not the last.
LastPageByFlagOnly(resp) == ~resp.has_more

\* `if not has_more or not next_max_id: break`
LastPage(resp) == ~resp.has_more \/ FalsyId(resp.next_max_id)

\* One iteration of `while len(followers) < limit:`.
ApiPage(resp) ==
    /\ pc = "api_loop"
    /\ Len(api_followers) < limit
    /\ request_count < MaxRequests
    /\ request_count' = request_count + 1
    /\ first_status' = IF request_count = 0
                       THEN (IF resp.kind = "raises" THEN -1 ELSE resp.status)
                       ELSE first_status
    /\ page_failure' = PageFailure(resp)
    /\ IF resp.kind = "raises"
       THEN \* except Exception: break
            /\ pc' = "api_exit"
            /\ UNCHANGED <<api_followers, api_seen_usernames, next_max_id, sighted, resighted,
                           rendered_runs>>
       ELSE IF resp.status # StatusOK
       THEN FallBack
       ELSE IF ~resp.json_ok
       THEN \* response.json() raises: except Exception: break
            /\ pc' = "api_exit"
            /\ UNCHANGED <<api_followers, api_seen_usernames, next_max_id, sighted, resighted,
                           rendered_runs>>
       ELSE LET st == ProcessUsers([seen |-> api_seen_usernames,
                                    followers |-> api_followers], resp.users)
            IN /\ api_followers' = st.followers
               /\ api_seen_usernames' = st.seen
               /\ next_max_id' = resp.next_max_id
               /\ sighted' = FirstSightings(sighted, ApiSightings(resp.users))
               /\ resighted' = (resighted \/ SeenAgain(sighted, ApiSightings(resp.users)))
               /\ pc' = IF LastPage(resp) THEN "api_exit" ELSE "api_loop"
               /\ UNCHANGED rendered_runs
    /\ UNCHANGED <<fn, limit, session_cookies, is_logged_in, followers, seen_usernames,
                   scroll_attempts, no_new_users_count, passes_left, result>>

\* After the loop: close the browser and return.
ApiReturn ==
    /\ \/ pc = "api_exit"
       \/ pc = "api_loop" /\ ~(Len(api_followers) < limit)
    /\ pc' = "done"
    /\ result' = ApiSuccess(api_followers, limit)
    /\ UNCHANGED <<fn, limit, session_cookies, is_logged_in, api_followers,
                   api_seen_usernames, next_max_id, request_count, followers,
                   seen_usernames, scroll_attempts, no_new_users_count, passes_left,
                   sighted, resighted, rendered_runs, first_status, page_failure>>

\* ------------------------------------------------------------------------
\* instagram_get_followers
\* ------------------------------------------------------------------------
\* From the start of the function to the first pass.  outcome: "ok", or
\* the way the set-up fails.
SetupErrors ==
    [no_link |-> "Followers link not found - session may have expired",
     no_dialog |-> "Followers dialog did not appear",
     exception |-> "exception"]

DomSetup(outcome) ==
    /\ pc = "dom_setup"
    /\ IF outcome = "ok"
       THEN /\ pc' = "dom_loop"
            /\ followers' = <<>>
            /\ seen_usernames' = {}
            /\ scroll_attempts' = 0
            /\ no_new_users_count' = 0
            /\ sighted' = <<>>
            /\ resighted' = FALSE
            /\ UNCHANGED result
       ELSE /\ pc' = "done"
            /\ result' = Failure(SetupErrors[outcome])
            /\ UNCHANGED <<followers, seen_usernames, scroll_attempts, no_new_users_count,
                           sighted, resighted>>
    /\ UNCHANGED <<fn, limit, session_cookies, is_logged_in, api_followers,
                   api_seen_usernames, next_max_id, request_count, passes_left,
                   rendered_runs, first_status, page_failure>>

\* One iteration of `while True:`: the extraction pass over the links the
\* dialog shows, the idle counter, the two exits, then scroll and sleep.
DomPass(user_links) ==
    /\ pc = "dom_loop"
    /\ LET st == ProcessLinks([seen |-> seen_usernames, followers |-> followers], user_links)
           new_users_this_scroll == Len(st.followers) - Len(followers)
           idle == IF new_users_this_scroll = 0 THEN no_new_users_count + 1 ELSE 0
       IN /\ scroll_attempts' = scroll_attempts + 1
          /\ followers' = st.followers
          /\ seen_usernames' = st.seen
          /\ no_new_users_count' = idle
          /\ sighted' = FirstSightings(sighted, DomSightings(user_links))
          /\ resighted' = (resighted \/ SeenAgain(sighted, DomSightings(user_links)))
          /\ pc' = IF new_users_this_scroll = 0 /\ ReachedEndOfList(idle) THEN "dom_exit"
                   ELSE IF SafetyStop(scroll_attempts + 1) THEN "dom_exit"
                   ELSE "dom_loop"
    /\ UNCHANGED <<fn, limit, session_cookies, is_logged_in, api_followers,
                   api_seen_usernames, next_max_id, request_count, passes_left, result,
                   rendered_runs, first_status, page_failure>>

\* An exception outside the per-link try (listing the links, scrolling):
\* `except Exception as e: ... return {'success': False, 'error': str(e)}`.
DomRaises ==
    /\ pc = "dom_loop"
    /\ pc' = "done"
    /\ result' = Failure("exception")
    /\ UNCHANGED <<fn, limit, session_cookies, is_logged_in, api_followers,
                   api_seen_usernames, next_max_id, request_count, followers,
                   seen_usernames, scroll_attempts, no_new_users_count, passes_left,
                   sighted, resighted, rendered_runs, first_status, page_failure>>

\* After the loop: close the dialog and the browser and return.
DomReturn ==
    /\ pc = "dom_exit"
    /\ pc' = "done"
    /\ result' = DomSuccess(followers, limit)
    /\ UNCHANGED <<fn, limit, session_cookies, is_logged_in, api_followers,
                   api_seen_usernames, next_max_id, request_count, followers,
                   seen_usernames, scroll_attempts, no_new_users_count, passes_left,
                   sighted, resighted, rendered_runs, first_status, page_failure>>

\* ------------------------------------------------------------------------
\* InstagramBot.get_followers
\* ------------------------------------------------------------------------
BotStart(outcome) ==
    /\ pc = "bot_start"
    /\ IF ~is_logged_in
       THEN /\ pc' = "raised"
            /\ result' = Failure("Not logged in")
            /\ UNCHANGED <<followers, seen_usernames, passes_left, sighted, resighted>>
       ELSE IF outcome # "ok"
       THEN /\ pc' = "raised"
            /\ result' = Failure("Failed to get followers")
            /\ UNCHANGED <<followers, seen_usernames, passes_left, sighted, resighted>>
       ELSE /\ pc' = "bot_loop"
            /\ followers' = <<>>
            /\ seen_usernames' = {}
            /\ passes_left' = BotPasses(limit)
            /\ sighted' = <<>>
            /\ resighted' = FALSE
            /\ UNCHANGED result
    /\ UNCHANGED <<fn, limit, session_cookies, is_logged_in, api_followers,
                   api_seen_usernames, next_max_id, request_count, scroll_attempts,
                   no_new_users_count, rendered_runs, first_status, page_failure>>

\* One iteration of `for _ in range(min(limit // 12, 50)):`.
BotPass(user_elements) ==
    /\ pc = "bot_loop"
    /\ passes_left > 0
    /\ LET st == BotProcessElements([seen |-> seen_usernames, followers |-> followers],
                                    user_elements, limit)
       IN /\ followers' = st.followers
          /\ seen_usernames' = st.seen
          /\ sighted' = FirstSightings(sighted, DomSightings(user_elements))
          /\ resighted' = (resighted \/ SeenAgain(sighted, DomSightings(user_elements)))
          /\ IF Len(st.followers) >= limit
             THEN pc' = "bot_exit" /\ UNCHANGED passes_left
             ELSE pc' = "bot_loop" /\ passes_left' = passes_left - 1
    /\ UNCHANGED <<fn, limit, session_cookies, is_logged_in, api_followers,
                   api_seen_usernames, next_max_id, request_count, scroll_attempts,
                   no_new_users_count, result, rendered_runs, first_status, page_failure>>

\* `except Exception as e: raise Exception(f"Failed to get followers: ...")`
BotRaises ==
    /\ pc = "bot_loop"
    /\ passes_left > 0
    /\ pc' = "raised"
    /\ result' = Failure("Failed to get followers")
    /\ UNCHANGED <<fn, limit, session_cookies, is_logged_in, api_followers,
                   api_seen_usernames, next_max_id, request_count, followers,
                   seen_usernames, scroll_attempts, no_new_users_count, passes_left,
                   sighted, resighted, rendered_runs, first_status, page_failure>>

BotReturn ==
    /\ \/ pc = "bot_exit"
       \/ pc = "bot_loop" /\ passes_left = 0
    /\ pc' = "done"
    /\ result' = BotSuccess(followers, limit)
    /\ UNCHANGED <<fn, limit, session_cookies, is_logged_in, api_followers,
                   api_seen_usernames, next_max_id, request_count, followers,
                   seen_usernames, scroll_attempts, no_new_users_count, passes_left,
                   sighted, resighted, rendered_runs, first_status, page_failure>>

\* ------------------------------------------------------------------------
\* A harvest job against an arbitrary platform
\* ------------------------------------------------------------------------
HarvestInit ==
    /\ fn \in {"api", "dom", "bot"}
    /\ pc = (CASE fn = "api" -> "api_setup" [] fn = "dom" -> "dom_setup" [] OTHER -> "bot_start")
    /\ limit \in Limits
    /\ session_cookies \in (IF fn = "api" THEN CookieJars ELSE {<<>>})
    /\ is_logged_in \in (IF fn = "bot" THEN BOOLEAN ELSE {FALSE})
    /\ api_followers = <<>>
    /\ api_seen_usernames = {}
    /\ next_max_id = 0
    /\ request_count = 0
    /\ followers = <<>>
    /\ seen_usernames = {}
    /\ scroll_attempts = 0
    /\ no_new_users_count = 0
    /\ passes_left = 0
    /\ result = NoResult
    /\ sighted = <<>>
    /\ resighted = FALSE
    /\ rendered_runs = (IF fn = "dom" THEN 1 ELSE 0)
    /\ first_status = 0
    /\ page_failure = "none"

\* No caller cancels.
NoCaller ==
    /\ cancel_requested = FALSE
    /\ gathered_at_cancel = <<>>

\* No browser job is followed.
NoJob ==
    /\ job = "none"
    /\ rpc = "idle"
    /\ playwright = FALSE
    /\ browser = FALSE
    /\ drivers_running = 0
    /\ browsers_open = 0
    /\ launches = 0
    /\ exits = <<>>

\* No HTTP request is followed.
NoEndpoint ==
    /\ endpoint = "none"
    /\ db_session_active = FALSE
    /\ submitted = <<>>
    /\ http_status = 0

\* The remote session stays valid.
NoExpiry == expired_during = "none"

\* No call of a batch is followed.
NoFlight == in_flight = 0

\* Nothing is submitted to the executor.
NoPool ==
    /\ work_queue = <<>>
    /\ running = {}
    /\ submissions = 0

\* No request writes to the database.
NoDb ==
    /\ db_cookies = <<>>
    /\ today_unfollows = 0
    /\ action_log = <<>>
    /\ users_changed = {}

\* Nothing is recorded about requests, sleeps and passes.
NoPass == [raised |-> 0, unseen |-> 0, added |-> 0]

NoTrace ==
    /\ page_requests = <<>>
    /\ page_responses = <<>>
    /\ naps = 0
    /\ last_pass = NoPass
    /\ discarded = <<>>

\* The HTTP server has served nothing yet: empty tables, no request.
SessionIds == 1..MaxSessions
Slots == 1..MaxCalls
NoRow == [exists |-> FALSE, is_following_me |-> FALSE, i_am_following |-> FALSE]
NoCall == [endpoint |-> "none"]
NoReply == [endpoint |-> "none"]

NoStore ==
    /\ users_table = [h \in Handles |-> NoRow]
    /\ sessions = [sid \in SessionIds |-> "none"]
    /\ calls = [s \in Slots |-> NoCall]
    /\ reply = NoReply
    /\ logged_out = {}

NoOther ==
    NoCaller /\ NoJob /\ NoEndpoint /\ NoExpiry /\ NoFlight /\ NoPool /\ NoDb /\ NoTrace /\ NoStore

\* No batch runs during a harvest job.
NoBatch ==
    /\ batch_fn = "none"
    /\ batch_pc = "idle"
    /\ user_data = <<>>
    /\ i = 0
    /\ results = <<>>
    /\ successful = 0
    /\ failed = 0
    /\ batch_result = NoResult
    /\ now = 0
    /\ delays = <<>>
    /\ handled = <<>>

Init ==
    /\ HarvestInit
    /\ remote_n = 0
    /\ chunk = 0
    /\ loaded = 0
    /\ NoBatch
    /\ NoOther

Next ==
    \/ \E profile \in {"ok", "no_user_id", "error"} : ApiSetup(profile) /\ UNCHANGED <<surfaceVars, batchVars, otherVars>>
    \/ \E resp \in Responses : ApiPage(resp) /\ UNCHANGED <<surfaceVars, batchVars, otherVars>>
    \/ ApiReturn /\ UNCHANGED <<surfaceVars, batchVars, otherVars>>
    \/ \E outcome \in {"ok", "no_link", "no_dialog", "exception"} :
           DomSetup(outcome) /\ UNCHANGED <<surfaceVars, batchVars, otherVars>>
    \/ \E user_links \in SeqsUpTo(Elements, MaxLinks) : DomPass(user_links) /\ UNCHANGED <<surfaceVars, batchVars, otherVars>>
    \/ DomRaises /\ UNCHANGED <<surfaceVars, batchVars, otherVars>>
    \/ DomReturn /\ UNCHANGED <<surfaceVars, batchVars, otherVars>>
    \/ \E outcome \in {"ok", "exception"} : BotStart(outcome) /\ UNCHANGED <<surfaceVars, batchVars, otherVars>>
    \/ \E user_elements \in SeqsUpTo(Elements, MaxLinks) :
           BotPass(user_elements) /\ UNCHANGED <<surfaceVars, batchVars, otherVars>>
    \/ BotRaises /\ UNCHANGED <<surfaceVars, batchVars, otherVars>>
    \/ BotReturn /\ UNCHANGED <<surfaceVars, batchVars, otherVars>>

Spec == Init /\ [][Next]_vars

\* ------------------------------------------------------------------------
\* A harvest job against a simulated source: a remote list of remote_n
\* accounts 1..remote_n; the dialog renders `chunk` more rows at each
\* scroll and shows its last two chunks; the endpoint serves `chunk`
\* accounts per page.  Nothing fails.
\* ------------------------------------------------------------------------
Row(h) == [kind |-> "link", href |-> <<h>>, full_name |-> "A"]

\* The links the dialog shows.
Window ==
    LET first == Max(1, loaded - 2 * chunk + 1)
    IN [k \in 1..(loaded - first + 1) |-> Row(first + k - 1)]

\* The page the endpoint serves next.
NextPage ==
    LET last == Min(remote_n, loaded + chunk)
    IN [kind |-> "response", status |-> StatusOK, json_ok |-> TRUE,
        users |-> [k \in 1..(last - loaded) |-> [username |-> loaded + k, full_name |-> "A"]],
        has_more |-> (last < remote_n),
        next_max_id |-> (IF last < remote_n THEN 1 ELSE 0)]

DoubleInit ==
    /\ HarvestInit
    /\ fn = "api" => session_cookies \in {jar \in CookieJars : ~FalsyStr(CsrfToken(jar))}
    /\ fn = "bot" => is_logged_in
    /\ remote_n \in (0..MaxHandles) \cup {BigList}
    /\ chunk \in 1..MaxChunk
    /\ loaded = 0
    /\ NoBatch
    /\ NoOther

DoubleApiSetup == ApiSetup("ok") /\ UNCHANGED <<surfaceVars, batchVars, otherVars>>
DoubleApiPage ==
    /\ ApiPage(NextPage)
    /\ loaded' = Min(remote_n, loaded + chunk)
    /\ UNCHANGED <<remote_n, chunk, batchVars, otherVars>>
DoubleApiReturn == ApiReturn /\ UNCHANGED <<surfaceVars, batchVars, otherVars>>
DoubleDomSetup ==
    /\ DomSetup("ok")
    /\ loaded' = Min(remote_n, chunk)
    /\ UNCHANGED <<remote_n, chunk, batchVars, otherVars>>
DoubleDomPass ==
    /\ DomPass(Window)
    /\ loaded' = IF pc' = "dom_loop" THEN Min(remote_n, loaded + chunk) ELSE loaded
    /\ UNCHANGED <<remote_n, chunk, batchVars, otherVars>>
DoubleDomReturn == DomReturn /\ UNCHANGED <<surfaceVars, batchVars, otherVars>>
DoubleBotStart ==
    /\ BotStart("ok")
    /\ loaded' = Min(remote_n, chunk)
    /\ UNCHANGED <<remote_n, chunk, batchVars, otherVars>>
DoubleBotPass ==
    /\ BotPass(Window)
    /\ loaded' = IF pc' = "bot_loop" THEN Min(remote_n, loaded + chunk) ELSE loaded
    /\ UNCHANGED <<remote_n, chunk, batchVars, otherVars>>
DoubleBotReturn == BotReturn /\ UNCHANGED <<surfaceVars, batchVars, otherVars>>

DoubleNext ==
    \/ DoubleApiSetup
    \/ DoubleApiPage
    \/ DoubleApiReturn
    \/ DoubleDomSetup
    \/ DoubleDomPass
    \/ DoubleDomReturn
    \/ DoubleBotStart
    \/ DoubleBotPass
    \/ DoubleBotReturn

SpecDouble == DoubleInit /\ [][DoubleNext]_vars

\* ------------------------------------------------------------------------
\* Claims on the harvest
\* ------------------------------------------------------------------------
\* The job returned a list of entities.
Returned == pc = "done" /\ "followers" \in DOMAIN result

NoDuplicateHandles(list) ==
    \A a, b \in 1..Len(list) : a # b => list[a].username # list[b].username

\* C1: in every state of a harvest, and in the returned result, no two
\* entities of a result list have the same handle, whatever the pages and
\* passes showed.
C1_HandlesUnique ==
    /\ NoDuplicateHandles(api_followers)
    /\ NoDuplicateHandles(followers)
    /\ Returned => NoDuplicateHandles(result.followers)

\* A harvest that saw a handle again returned two entities.
C1_Witness == Returned /\ resighted /\ Len(result.followers) >= 2

FirstPageRefused == first_status # 0 /\ first_status # -1 /\ first_status # StatusOK

C7_FallbackOnce ==
    FirstPageRefused =>
        /\ request_count = 1
        /\ rendered_runs = 1
        /\ pc \in {"dom_setup", "dom_loop", "dom_exit", "done"}

C7_Witness == FirstPageRefused /\ Returned /\ Len(result.followers) >= 1

\* C14: a job of instagram_get_followers_api whose cookies hold no
\* 'csrftoken' makes no page request at all, hands over to the scraper of
\* the rendered surface exactly once, and what it returns is what that
\* scraper returned: its list, or its own failure, never a failure about
\* the token.
NoTokenJob == fn = "api" /\ FalsyStr(CsrfToken(session_cookies))

C14_NoTokenNoRequest ==
    NoTokenJob =>
        /\ request_count = 0
        /\ first_status = 0
        /\ page_failure = "none"
        /\ pc \in {"api_setup", "dom_setup", "dom_loop", "dom_exit", "done"}
        /\ pc # "api_setup" => rendered_runs = 1
        /\ pc = "done" =>
              /\ "method" \notin DOMAIN result
              /\ result.success => result = DomSuccess(followers, limit)
              /\ ~result.success =>
                    result.error \in {SetupErrors[k] : k \in DOMAIN SetupErrors}

C14_Witness == NoTokenJob /\ Returned /\ Len(result.followers) >= 1

\* C15: once a page request of the job has failed, by its status, by an
\* exception of the request or by a body that does not parse, the job is
\* in the scraper of the rendered surface, called once, and what it returns
\* is not the result of the endpoint strategy.
C15_FailedPageFallsBack ==
    page_failure # "none" =>
        /\ rendered_runs = 1
        /\ pc \in {"dom_setup", "dom_loop", "dom_exit", "done"}
        /\ pc = "done" => "method" \notin DOMAIN result

\* C16: a harvest that reports success = false returns an error text and
\* nothing else: no entity list and no count, whatever it had collected
\* when it failed.
HarvestFailed == pc = "done" /\ "success" \in DOMAIN result /\ ~result.success

C16_FailureCarriesNoEntities ==
    HarvestFailed => DOMAIN result = {"success", "error"}

\* A harvest that failed after it had collected entities.
C16_Witness == HarvestFailed /\ Len(followers) >= 1

AlwaysNew == remote_n > MaxScrollAttempts * chunk

C9_CeilingEndsTheLoop ==
    (fn = "dom" /\ AlwaysNew) =>
        /\ scroll_attempts <= MaxScrollAttempts
        /\ pc = "dom_loop" => scroll_attempts < MaxScrollAttempts /\ ENABLED DoubleDomPass
        /\ pc = "dom_exit" => scroll_attempts = MaxScrollAttempts /\ ENABLED DoubleDomReturn
        /\ pc = "done" =>
              /\ scroll_attempts = MaxScrollAttempts
              /\ result = DomSuccess(sighted, limit)
              /\ result.success
              /\ Len(sighted) = MaxScrollAttempts * chunk

C9_Witness ==
    /\ fn = "dom"
    /\ AlwaysNew
    /\ pc = "done"
    /\ result.success
    /\ result.count = MaxScrollAttempts

\* C10 as stated: a harvest with upper bound U against a source of more
\* than U accounts returns exactly U entities, the first U of the list.
C10_ExactlyUpperBound ==
    (Returned /\ remote_n > limit) =>
        /\ Len(result.followers) = limit
        /\ \A k \in 1..Len(result.followers) : result.followers[k].username = k

\* ------------------------------------------------------------------------
\* The batch action executor: instagram_unfollow_batch,
\* instagram_unfollow_batch_api and InstagramBot.unfollow_batch
\* ------------------------------------------------------------------------
\* An item of user_data (user_id 0: the key is missing or its value is None).
UserData == [username : Handles, user_id : {0, Pk(1)}]

\* The exception an unguarded call lets through.
Raised(msg) == [raised |-> msg]

\* instagram_unfollow_user: every exit of the function.
\* outcome: what the browser does ("ok": both controls are found and clicked).
instagram_unfollow_user(username, outcome, t) ==
    CASE outcome = "ok" ->
             [success |-> TRUE, username |-> username, timestamp |-> t]
      [] outcome = "no_button" ->
             [success |-> FALSE, username |-> username,
              error |-> "User not followed or button not found"]
      [] outcome = "no_option" ->
             [success |-> FALSE, username |-> username, error |-> "Unfollow option not found"]
      [] OTHER ->
             [success |-> FALSE, username |-> username, error |-> "exception"]

\* _extract_tokens_from_cookies: the loop has no break, the last cookie of a name wins.
RECURSIVE ExtractTokens(_, _)
ExtractTokens(cookies, tokens) ==
    IF cookies = <<>> THEN tokens
    ELSE LET cookie == Head(cookies)
         IN ExtractTokens(Tail(cookies),
                IF cookie.name = "csrftoken" THEN [tokens EXCEPT !.csrftoken = cookie.value]
                ELSE IF cookie.name = "sessionid" THEN [tokens EXCEPT !.sessionid = cookie.value]
                ELSE tokens)

_extract_tokens_from_cookies(cookies) ==
    ExtractTokens(cookies, [csrftoken |-> None, sessionid |-> None])

\* instagram_unfollow_user_api: every exit of the function.
\* response: what the POST gives ("ok": status 200 and a body with 'data' or 'status').
instagram_unfollow_user_api(user_id, username, cookies, response, t) ==
    LET tokens == _extract_tokens_from_cookies(cookies)
    IN IF FalsyStr(tokens.csrftoken) \/ FalsyStr(tokens.sessionid)
       THEN [success |-> FALSE, username |-> username, error |-> "Missing authentication tokens"]
       ELSE CASE response = "ok" ->
                     [success |-> TRUE, username |-> username, method |-> "api", timestamp |-> t]
              [] response = "unexpected" ->
                     [success |-> FALSE, username |-> username, error |-> "Unexpected API response"]
              [] response = "bad_json" ->
                     [success |-> FALSE, username |-> username, error |-> "Invalid JSON response"]
              [] response = "http_error" ->
                     [success |-> FALSE, username |-> username, error |-> "HTTP error"]
              [] OTHER ->
                     [success |-> FALSE, username |-> username, error |-> "exception"]

\* InstagramBot.unfollow_user: the login test is outside the try.
BotUnfollowUser(username, outcome) ==
    IF ~is_logged_in THEN Raised("Not logged in")
    ELSE CASE outcome = "ok" -> [success |-> TRUE, username |-> username]
           [] outcome = "no_button" ->
                  [success |-> FALSE, error |-> "User not followed or button not found"]
           [] outcome = "no_dialog" ->
                  [success |-> FALSE, error |-> "Unfollow confirmation dialog not found"]
           [] OTHER -> [success |-> FALSE, error |-> "exception"]

\* Mutant of EndOfBatch: the loop also ends at the first failure.
EndOfBatchOrFailure == i >= Len(user_data) \/ failed > 0

\* `for i, ... in enumerate(...)` is exhausted.
EndOfBatch == i >= Len(user_data)

\* Mutant of FailedAfter: failures are not counted.
FailedNotCounted(r) == failed

\* `if result['success']: successful += 1 else: failed += 1`
FailedAfter(r) == IF r.success THEN failed ELSE failed + 1
SuccessfulAfter(r) == IF r.success THEN successful + 1 ELSE successful

\* `if i < len(...) - 1: time.sleep(...)`
SleepUnlessLast == IF i < Len(user_data) - 1 THEN Append(delays, i) ELSE delays

\* One iteration of the loop of instagram_unfollow_batch.
UnfollowBatchItem(outcome) ==
    /\ batch_fn = "sync"
    /\ batch_pc = "loop"
    /\ ~EndOfBatch
    /\ LET username == user_data[i + 1]
           r == instagram_unfollow_user(username, outcome, now)
       IN /\ results' = Append(results, r)
          /\ successful' = SuccessfulAfter(r)
          /\ failed' = FailedAfter(r)
          /\ handled' = Append(handled, username)
    /\ delays' = SleepUnlessLast
    /\ i' = i + 1
    /\ now' = now + 1
    /\ UNCHANGED <<batch_fn, batch_pc, user_data, batch_result>>

\* The summary both instagram_unfollow_batch functions return.
BatchSummary ==
    [success |-> (failed = 0),
     results |-> results,
     summary |-> [total |-> Len(user_data), successful |-> successful, failed |-> failed]]

UnfollowBatchReturn ==
    /\ batch_fn = "sync"
    /\ batch_pc = "loop"
    /\ EndOfBatch
    /\ batch_pc' = "done"
    /\ batch_result' = BatchSummary
    /\ UNCHANGED <<batch_fn, user_data, i, results, successful, failed, now, delays, handled>>

\* One iteration of the loop of instagram_unfollow_batch_api: an item
\* without user_id is recorded as failed and `continue` goes to the next
\* item, past the sleep at the end of the body.
UnfollowBatchApiItem(response) ==
    /\ batch_fn = "api"
    /\ batch_pc = "loop"
    /\ ~EndOfBatch
    /\ LET user == user_data[i + 1]
       IN /\ handled' = Append(handled, user.username)
          /\ IF FalsyId(user.user_id)
             THEN /\ results' = Append(results,
                        [success |-> FALSE, username |-> user.username,
                         error |-> "No user_id available"])
                  /\ failed' = failed + 1
                  /\ UNCHANGED <<successful, delays>>
             ELSE LET r == instagram_unfollow_user_api(user.user_id, user.username,
                                                       session_cookies, response, now)
                  IN /\ results' = Append(results, r)
                     /\ successful' = SuccessfulAfter(r)
                     /\ failed' = FailedAfter(r)
                     /\ delays' = SleepUnlessLast
    /\ i' = i + 1
    /\ now' = now + 1
    /\ UNCHANGED <<batch_fn, batch_pc, user_data, batch_result>>

UnfollowBatchApiReturn ==
    /\ batch_fn = "api"
    /\ batch_pc = "loop"
    /\ EndOfBatch
    /\ batch_pc' = "done"
    /\ batch_result' = BatchSummary
    /\ UNCHANGED <<batch_fn, user_data, i, results, successful, failed, now, delays, handled>>

\* One iteration of the loop of InstagramBot.unfollow_batch:
\* `results.append({**result, 'username': username, 'timestamp': ...})`;
\* the exception of unfollow_user is not caught.
BotUnfollowBatchItem(outcome) ==
    /\ batch_fn = "bot"
    /\ batch_pc = "loop"
    /\ ~EndOfBatch
    /\ LET username == user_data[i + 1]
           r == BotUnfollowUser(username, outcome)
       IN IF "raised" \in DOMAIN r
          THEN /\ batch_pc' = "raised"
               /\ batch_result' = r
               /\ UNCHANGED <<results, delays, handled, i>>
          ELSE /\ results' = Append(results, [username |-> username, timestamp |-> now] @@ r)
               /\ handled' = Append(handled, username)
               /\ delays' = SleepUnlessLast
               /\ i' = i + 1
               /\ UNCHANGED <<batch_pc, batch_result>>
    /\ now' = now + 1
    /\ UNCHANGED <<batch_fn, user_data, successful, failed>>

BotUnfollowBatchReturn ==
    /\ batch_fn = "bot"
    /\ batch_pc = "loop"
    /\ EndOfBatch
    /\ batch_pc' = "done"
    /\ batch_result' = results
    /\ UNCHANGED <<batch_fn, user_data, i, results, successful, failed, now, delays, handled>>

\* No harvest runs during a batch.
NoHarvest ==
    /\ fn = "none"
    /\ pc = "idle"
    /\ limit = 0
    /\ api_followers = <<>>
    /\ api_seen_usernames = {}
    /\ next_max_id = 0
    /\ request_count = 0
    /\ followers = <<>>
    /\ seen_usernames = {}
    /\ scroll_attempts = 0
    /\ no_new_users_count = 0
    /\ passes_left = 0
    /\ result = NoResult
    /\ sighted = <<>>
    /\ resighted = FALSE
    /\ rendered_runs = 0
    /\ first_status = 0
    /\ page_failure = "none"
    /\ remote_n = 0
    /\ chunk = 0
    /\ loaded = 0

BatchInit ==
    /\ NoHarvest
    /\ NoOther
    /\ batch_fn \in {"sync", "api", "bot"}
    /\ batch_pc = "loop"
    /\ user_data \in (IF batch_fn = "api" THEN SeqsUpTo(UserData, MaxBatch)
                      ELSE SeqsUpTo(Handles, MaxBatch))
    /\ session_cookies \in (IF batch_fn = "api" THEN CookieJars ELSE {<<>>})
    /\ is_logged_in \in (IF batch_fn = "bot" THEN BOOLEAN ELSE {FALSE})
    /\ i = 0
    /\ results = <<>>
    /\ successful = 0
    /\ failed = 0
    /\ batch_result = NoResult
    /\ now = 0
    /\ delays = <<>>
    /\ handled = <<>>

BatchNext ==
    \/ \E outcome \in {"ok", "no_button", "no_option", "exception"} :
           UnfollowBatchItem(outcome) /\ UNCHANGED <<harvestVars, surfaceVars, otherVars>>
    \/ UnfollowBatchReturn /\ UNCHANGED <<harvestVars, surfaceVars, otherVars>>
    \/ \E response \in {"ok", "unexpected", "bad_json", "http_error", "exception"} :
           UnfollowBatchApiItem(response) /\ UNCHANGED <<harvestVars, surfaceVars, otherVars>>
    \/ UnfollowBatchApiReturn /\ UNCHANGED <<harvestVars, surfaceVars, otherVars>>
    \/ \E outcome \in {"ok", "no_button", "no_dialog", "exception"} :
           BotUnfollowBatchItem(outcome) /\ UNCHANGED <<harvestVars, surfaceVars, otherVars>>
    \/ BotUnfollowBatchReturn /\ UNCHANGED <<harvestVars, surfaceVars, otherVars>>

SpecBatch == BatchInit /\ [][BatchNext]_vars

\* ------------------------------------------------------------------------
\* Claims on the batch
\* ------------------------------------------------------------------------
\* The Outcomes a finished batch returned.
Outcomes == IF batch_fn = "bot" THEN batch_result ELSE batch_result.results
HandleOf(item) == IF batch_fn = "api" THEN item.username ELSE item
BatchEnded == batch_pc \in {"done", "raised"}
SucceededAt == {k \in 1..Len(results) : results[k].success}

\* C3: a batch call ends by returning exactly one Outcome per input item,
\* and the Outcome at position k carries the handle of input item k, in
\* instagram_unfollow_batch, instagram_unfollow_batch_api and
\* InstagramBot.unfollow_batch, for every input and every set of failures.
C3_OneOutcomePerItem ==
    BatchEnded =>
        /\ batch_pc = "done"
        /\ Len(Outcomes) = Len(user_data)
        /\ \A k \in 1..Len(user_data) :
               /\ "username" \in DOMAIN Outcomes[k]
               /\ Outcomes[k].username = HandleOf(user_data[k])

\* C4: a failed Outcome never stops the batch: as long as items are left
\* the loop is in its body or can run it for the next item, the loop body
\* has run for the first i items in input order, and the batch returns only
\* when it has run for every item.
C4_FailureNeverStopsTheBatch ==
    (batch_fn # "none" /\ SucceededAt # 1..Len(results)) =>
        /\ batch_pc \in {"loop", "done"}
        /\ Len(results) = i
        /\ handled = [k \in 1..i |-> HandleOf(user_data[k])]
        /\ (batch_pc = "loop" /\ i < Len(user_data)) => ENABLED BatchNext
        /\ batch_pc = "done" =>
               /\ i = Len(user_data)
               /\ Len(Outcomes) = Len(user_data)

\* [a, b, c] where only b fails gives [ok(a), fail(b), ok(c)].
C4_Witness ==
    /\ batch_fn = "sync"
    /\ batch_pc = "done"
    /\ Len(user_data) = MaxBatch
    /\ batch_result.results[1].success
    /\ ~batch_result.results[2].success
    /\ batch_result.results[3].success
    /\ batch_result.results[3].username = user_data[3]

\* C5: in instagram_unfollow_batch and instagram_unfollow_batch_api, when
\* the loop body has run for the first i items, the batch has slept once
\* after each of them that is not the last item of the input, whatever its
\* outcome, and never after the last item.
C5_DelayBetweenEveryPair ==
    batch_fn \in {"sync", "api"} =>
        delays = [k \in 1..Min(i, Len(user_data) - 1) |-> k - 1]

\* C6: the result of instagram_unfollow_batch and of
\* instagram_unfollow_batch_api has success = TRUE exactly when every
\* Outcome succeeded, total = number of input items = successful + failed,
\* and successful and failed are the numbers of succeeded and of failed
\* Outcomes of the list.
C6_AggregateAndSummary ==
    batch_fn \in {"sync", "api"} =>
        /\ successful = Cardinality(SucceededAt)
        /\ failed = Len(results) - Cardinality(SucceededAt)
        /\ batch_pc = "done" =>
               /\ batch_result.results = results
               /\ batch_result.success <=> (SucceededAt = 1..Len(results))
               /\ batch_result.summary.total = Len(user_data)
               /\ batch_result.summary.total = Len(batch_result.results)
               /\ batch_result.summary.total =
                      batch_result.summary.successful + batch_result.summary.failed
               /\ batch_result.summary.successful = Cardinality(SucceededAt)
               /\ batch_result.summary.failed = Len(results) - Cardinality(SucceededAt)

C6_Witness ==
    /\ batch_fn \in {"sync", "api"}
    /\ batch_pc = "done"
    /\ ~batch_result.success
    /\ batch_result.summary.successful >= 1
    /\ batch_result.summary.failed >= 2

\* ------------------------------------------------------------------------
\* Cancellation by the caller
\* ------------------------------------------------------------------------
\* The endpoint coroutine awaits the job with `await loop.run_in_executor(...)`;
\* cancelling the request cancels that await.  The job is a plain function
\* running in a pool thread: it takes no signal and reads none, so no
\* action of the harvest mentions cancel_requested.
Cancel ==
    /\ ~cancel_requested
    /\ pc \in {"api_loop", "dom_loop"}
    /\ request_count <= MaxCancelAt
    /\ scroll_attempts <= MaxCancelAt
    /\ cancel_requested' = TRUE
    /\ gathered_at_cancel' = (IF pc = "api_loop" THEN api_followers ELSE followers)
    /\ UNCHANGED <<harvestVars, surfaceVars, batchVars, resourceVars, endpointVars, platformVars, flightVars, poolVars,
                   dbVars, traceVars, storeVars>>

CancelNext ==
    \/ DoubleApiSetup
    \/ DoubleApiPage
    \/ DoubleApiReturn
    \/ DoubleDomSetup
    \/ DoubleDomPass
    \/ DoubleDomReturn
    \/ Cancel

CancelInit ==
    /\ DoubleInit
    /\ fn \in {"api", "dom"}

SpecCancel == CancelInit /\ [][CancelNext]_vars

\* C11: once the caller has cancelled between two pages or two passes, the
\* harvest gathers nothing more, and it returns exactly the entities it
\* held at that point together with a cancelled indicator.
C11_CancelReturnsPartial ==
    cancel_requested =>
        /\ pc \in {"api_loop", "api_exit"} => api_followers = gathered_at_cancel
        /\ pc \in {"dom_loop", "dom_exit"} => followers = gathered_at_cancel
        /\ pc = "done" =>
               /\ "cancelled" \in DOMAIN result
               /\ "followers" \in DOMAIN result
               /\ result.followers = gathered_at_cancel

\* ------------------------------------------------------------------------
\* The browser of a job: instagram_login, instagram_get_followers,
\* instagram_get_followers_api, instagram_unfollow_user
\* ------------------------------------------------------------------------
\* Every job starts with `playwright = None; browser = None; try:
\* playwright = sync_playwright().start(); browser, context =
\* _create_browser_context(playwright, headless)`, and leaves through one
\* of the exits below.  Closing and stopping are taken not to raise.
Jobs == {"login", "followers", "followers_api", "unfollow_user"}

\* The exits of each job inside its try, "exception" being the handler.
ExitsOf(j) ==
    CASE j = "login" -> {"error_message", "success", "still_on_login", "exception"}
      [] j = "followers" -> {"success", "exception"}
      [] j = "followers_api" -> {"no_user_id", "no_csrf", "status_error", "success", "exception"}
      [] OTHER -> {"no_button", "no_option", "success", "exception"}

\* The exits of instagram_get_followers_api that end with
\* `return instagram_get_followers(username, session_cookies, limit, headless)`.
FallsBack(j, exit) ==
    j = "followers_api" /\ exit \in {"no_user_id", "no_csrf", "status_error", "exception"}

\* The state of the platform's resources.
Resources == [drivers : Nat, browsers : Nat]

\* browser.close()
CloseBrowser(r) == [r EXCEPT !.browsers = IF r.browsers > 0 THEN r.browsers - 1 ELSE 0]

\* playwright.stop(): the driver ends, and with it the browsers it launched.
StopPlaywright(r) == [drivers |-> IF r.drivers > 0 THEN r.drivers - 1 ELSE 0, browsers |-> 0]

\* Mutant of ReleaseBeforeReturn: an early return that releases nothing.
ReturnWithoutRelease(r) == r

\* `[page.close(); context.close();] browser.close(); playwright.stop()` before a return.
ReleaseBeforeReturn(r) == StopPlaywright(CloseBrowser(r))

\* Mutant of ReleaseInHandler: the handler goes to the fallback at once.
HandlerWithoutRelease(r, has_browser, has_playwright) == r

\* The handler: `if browser: ... browser.close()` then `if playwright: playwright.stop()`.
ReleaseInHandler(r, has_browser, has_playwright) ==
    LET r1 == IF has_browser THEN CloseBrowser(r) ELSE r
    IN IF has_playwright THEN StopPlaywright(r1) ELSE r1

\* `playwright = sync_playwright().start()`; outcome "raises": the handler
\* runs with both locals None.
JobStart(outcome) ==
    /\ rpc = "start"
    /\ IF outcome = "ok"
       THEN /\ playwright' = TRUE
            /\ drivers_running' = drivers_running + 1
            /\ rpc' = "create_context"
            /\ UNCHANGED <<job, exits>>
       ELSE /\ exits' = Append(exits, <<job, "exception">>)
            /\ IF FallsBack(job, "exception")
               THEN job' = "followers" /\ rpc' = "start"
               ELSE rpc' = "returned" /\ UNCHANGED job
            /\ UNCHANGED <<playwright, drivers_running>>
    /\ UNCHANGED <<browser, browsers_open, launches>>

\* _create_browser_context: outcome "ok"; "launch_raises"; "context_raises"
\* (the browser is launched, new_context raises, and the caller's `browser`
\* stays None).  On a raise the handler runs.
JobCreateContext(outcome) ==
    /\ rpc = "create_context"
    /\ IF outcome = "ok"
       THEN /\ browser' = TRUE
            /\ browsers_open' = browsers_open + 1
            /\ launches' = launches + 1
            /\ rpc' = "body"
            /\ UNCHANGED <<job, playwright, drivers_running, exits>>
       ELSE LET launched == IF outcome = "context_raises" THEN 1 ELSE 0
                r == ReleaseInHandler([drivers |-> drivers_running,
                                       browsers |-> browsers_open + launched],
                                      browser, playwright)
            IN /\ launches' = launches + launched
               /\ drivers_running' = r.drivers
               /\ browsers_open' = r.browsers
               /\ exits' = Append(exits, <<job, "exception">>)
               /\ playwright' = FALSE
               /\ browser' = FALSE
               /\ IF FallsBack(job, "exception")
                  THEN job' = "followers" /\ rpc' = "start"
                  ELSE rpc' = "returned" /\ UNCHANGED job

\* An exit of the body: the release written at that exit, then the return
\* (for a fall-back, the call of instagram_get_followers).
JobExit(exit) ==
    /\ rpc = "body"
    /\ exit \in ExitsOf(job)
    /\ LET r0 == [drivers |-> drivers_running, browsers |-> browsers_open]
           r == IF exit = "exception" THEN ReleaseInHandler(r0, browser, playwright)
                ELSE ReleaseBeforeReturn(r0)
       IN /\ drivers_running' = r.drivers
          /\ browsers_open' = r.browsers
    /\ exits' = Append(exits, <<job, exit>>)
    /\ playwright' = FALSE
    /\ browser' = FALSE
    /\ IF FallsBack(job, exit)
       THEN job' = "followers" /\ rpc' = "start"
       ELSE rpc' = "returned" /\ UNCHANGED job
    /\ UNCHANGED launches

\* The caller starts its next job once the last one has returned (the loop
\* of instagram_unfollow_batch, the two harvests of complete_analysis).
JobAgain(j) ==
    /\ rpc = "returned"
    /\ Len(exits) < MaxExits
    /\ job' = j
    /\ rpc' = "start"
    /\ UNCHANGED <<playwright, browser, drivers_running, browsers_open, launches, exits>>

JobInit ==
    /\ NoHarvest
    /\ NoBatch
    /\ NoCaller
    /\ NoExpiry
    /\ NoFlight
    /\ NoPool
    /\ NoDb
    /\ NoTrace
    /\ NoStore
    /\ NoEndpoint
    /\ session_cookies = <<>>
    /\ is_logged_in = FALSE
    /\ job \in Jobs
    /\ rpc = "start"
    /\ playwright = FALSE
    /\ browser = FALSE
    /\ drivers_running = 0
    /\ browsers_open = 0
    /\ launches = 0
    /\ exits = <<>>

JobNext ==
    \/ \E outcome \in {"ok", "raises"} :
           JobStart(outcome) /\ UNCHANGED <<harvestVars, surfaceVars, batchVars, callerVars, endpointVars, platformVars, flightVars, poolVars,
                   dbVars, traceVars, storeVars>>
    \/ \E outcome \in {"ok", "launch_raises", "context_raises"} :
           JobCreateContext(outcome)
               /\ UNCHANGED <<harvestVars, surfaceVars, batchVars, callerVars, endpointVars, platformVars, flightVars, poolVars,
                   dbVars, traceVars, storeVars>>
    \/ \E exit \in {"error_message", "success", "still_on_login", "exception", "no_user_id",
                    "no_csrf", "status_error", "no_button", "no_option"} :
           JobExit(exit) /\ UNCHANGED <<harvestVars, surfaceVars, batchVars, callerVars, endpointVars, platformVars, flightVars, poolVars,
                   dbVars, traceVars, storeVars>>
    \/ \E j \in Jobs :
           JobAgain(j) /\ UNCHANGED <<harvestVars, surfaceVars, batchVars, callerVars, endpointVars, platformVars, flightVars, poolVars,
                   dbVars, traceVars, storeVars>>

SpecJob == JobInit /\ [][JobNext]_vars

\* C12: when a job returns, by whichever exit, no browser it launched is
\* open and no driver it started runs; the same holds when
\* instagram_get_followers_api hands over to instagram_get_followers.
C12_BrowserReleased ==
    (rpc = "returned" \/ (rpc = "start" /\ exits # <<>>)) =>
        /\ drivers_running = 0
        /\ browsers_open = 0

\* The endpoint answers an error status, the scraper then fails: two
\* browsers were launched, none is left.
C12_Witness ==
    /\ rpc = "returned"
    /\ exits = <<<<"followers_api", "status_error">>, <<"followers", "exception">>>>
    /\ launches = 2
    /\ drivers_running = 0
    /\ browsers_open = 0

\* ------------------------------------------------------------------------
\* The harvest endpoints of main.py: get_followers, get_following,
\* complete_analysis
\* ------------------------------------------------------------------------
HarvestEndpoints == {"get_followers", "get_following", "complete_analysis"}

\* The functions an endpoint hands to the executor, in order
\* (`loop.run_in_executor(executor, instagram_get_followers, ...)`).
SubmittedBy(e) ==
    CASE e = "get_followers" -> <<"instagram_get_followers">>
      [] e = "get_following" -> <<"instagram_get_following">>
      [] OTHER -> <<"instagram_get_followers", "instagram_get_following">>

\* The first step of each of the harvest functions main.py imports: both are
\* rendered-surface functions.
EntryOf(function) ==
    CASE function = "instagram_get_followers" -> [fn |-> "dom", pc |-> "dom_setup", runs |-> 1]
      [] function = "instagram_get_following" -> [fn |-> "dom", pc |-> "dom_setup", runs |-> 1]
      [] OTHER -> [fn |-> "api", pc |-> "api_setup", runs |-> 0]

\* A fresh frame of a harvest function.
StartHarvest(entry) ==
    /\ fn' = entry.fn
    /\ pc' = entry.pc
    /\ rendered_runs' = entry.runs
    /\ api_followers' = <<>>
    /\ api_seen_usernames' = {}
    /\ next_max_id' = 0
    /\ request_count' = 0
    /\ followers' = <<>>
    /\ seen_usernames' = {}
    /\ scroll_attempts' = 0
    /\ no_new_users_count' = 0
    /\ passes_left' = 0
    /\ result' = NoResult
    /\ sighted' = <<>>
    /\ resighted' = FALSE
    /\ first_status' = 0
    /\ page_failure' = "none"
    /\ UNCHANGED <<limit, session_cookies, is_logged_in>>

\* The session check, then the next `await loop.run_in_executor(...)`.
EndpointSubmit ==
    /\ endpoint \in HarvestEndpoints
    /\ http_status = 0
    /\ pc = "idle"
    /\ Len(submitted) < Len(SubmittedBy(endpoint))
    /\ IF ~db_session_active
       THEN /\ http_status' = 401
            /\ UNCHANGED <<harvestVars, loaded, submitted>>
       ELSE /\ StartHarvest(EntryOf(SubmittedBy(endpoint)[Len(submitted) + 1]))
            /\ submitted' = Append(submitted, SubmittedBy(endpoint)[Len(submitted) + 1])
            /\ loaded' = 0
            /\ UNCHANGED http_status
    /\ UNCHANGED <<endpoint, db_session_active, remote_n, chunk>>

\* The result comes back: `if not result['success']: raise HTTPException(500, ...)`,
\* else the next harvest of the endpoint, or the answer.
EndpointAwait ==
    /\ endpoint \in HarvestEndpoints
    /\ http_status = 0
    /\ pc = "done"
    /\ IF ~result.success
       THEN /\ http_status' = 500
            /\ UNCHANGED harvestVars
       ELSE IF Len(submitted) < Len(SubmittedBy(endpoint))
       THEN /\ pc' = "idle"
            /\ UNCHANGED <<fn, limit, session_cookies, is_logged_in, api_followers,
                           api_seen_usernames, next_max_id, request_count, followers,
                           seen_usernames, scroll_attempts, no_new_users_count,
                           passes_left, result, sighted, resighted, rendered_runs,
                           first_status, page_failure>>
            /\ UNCHANGED http_status
       ELSE /\ http_status' = 200
            /\ UNCHANGED harvestVars
    /\ UNCHANGED <<endpoint, db_session_active, submitted, surfaceVars>>

EndpointInit ==
    /\ NoBatch
    /\ NoCaller
    /\ NoExpiry
    /\ NoFlight
    /\ NoPool
    /\ NoDb
    /\ NoTrace
    /\ NoStore
    /\ NoJob
    /\ fn = "none"
    /\ pc = "idle"
    /\ limit \in Limits
    /\ session_cookies \in CookieJars
    /\ is_logged_in = FALSE
    /\ api_followers = <<>>
    /\ api_seen_usernames = {}
    /\ next_max_id = 0
    /\ request_count = 0
    /\ followers = <<>>
    /\ seen_usernames = {}
    /\ scroll_attempts = 0
    /\ no_new_users_count = 0
    /\ passes_left = 0
    /\ result = NoResult
    /\ sighted = <<>>
    /\ resighted = FALSE
    /\ rendered_runs = 0
    /\ first_status = 0
    /\ page_failure = "none"
    /\ remote_n \in 0..MaxHandles
    /\ chunk \in 1..MaxChunk
    /\ loaded = 0
    /\ endpoint \in HarvestEndpoints
    /\ db_session_active \in BOOLEAN
    /\ submitted = <<>>
    /\ http_status = 0

EndpointNext ==
    \/ EndpointSubmit /\ UNCHANGED <<batchVars, callerVars, resourceVars, platformVars, flightVars, poolVars,
                   dbVars, traceVars, storeVars>>
    \/ EndpointAwait /\ UNCHANGED <<batchVars, callerVars, resourceVars, platformVars, flightVars, poolVars,
                   dbVars, traceVars, storeVars>>
    \/ \E outcome \in {"no_link", "no_dialog", "exception"} :
           DomSetup(outcome) /\ UNCHANGED <<surfaceVars, batchVars, otherVars>>
    \/ DoubleDomSetup
    \/ DoubleDomPass
    \/ DomRaises /\ UNCHANGED <<surfaceVars, batchVars, otherVars>>
    \/ DoubleDomReturn

SpecEndpoint == EndpointInit /\ [][EndpointNext]_vars

\* C13: every harvest function an endpoint hands to the executor starts
\* with the structured-endpoint strategy when the session cookies hold a
\* csrftoken.
C13_EndpointStrategyFirst ==
    (submitted # <<>> /\ ~FalsyStr(CsrfToken(session_cookies))) =>
        \A k \in 1..Len(submitted) :
            EntryOf(submitted[k]).fn = "api"


\* ------------------------------------------------------------------------
\* A harvest job whose remote session expires
\* ------------------------------------------------------------------------
\* With an expired session the platform answers every page with the login
\* surface: the profile page shows no followers link, the endpoint refuses
\* the request, and the dialog loads nothing more.  The session is expired
\* at the start of the job or expires while a strategy runs.
SessionExpired == expired_during # "none"

\* What the endpoint answers without a session.
RefusedPage ==
    [kind |-> "response", status |-> StatusError, json_ok |-> FALSE, users |-> <<>>,
     has_more |-> FALSE, next_max_id |-> 0]

Expire ==
    /\ ~SessionExpired
    /\ pc \in {"api_loop", "dom_loop"}
    /\ expired_during' = (IF pc = "api_loop" THEN "api" ELSE "dom")
    /\ UNCHANGED <<harvestVars, surfaceVars, batchVars, callerVars, resourceVars, endpointVars,
                   flightVars, poolVars,
                   dbVars, traceVars, storeVars>>

\* The login surface may or may not carry an id in its scripts.
ExpiredApiSetup ==
    /\ \E profile \in (IF SessionExpired THEN {"no_user_id", "ok"} ELSE {"ok"}) :
           ApiSetup(profile)
    /\ UNCHANGED <<surfaceVars, batchVars, otherVars>>

ExpiredApiPage ==
    /\ ApiPage(IF SessionExpired THEN RefusedPage ELSE NextPage)
    /\ loaded' = IF SessionExpired THEN loaded ELSE Min(remote_n, loaded + chunk)
    /\ UNCHANGED <<remote_n, chunk, batchVars, otherVars>>

ExpiredApiReturn == ApiReturn /\ UNCHANGED <<surfaceVars, batchVars, otherVars>>

\* `if not followers_link.is_visible(timeout=5000): raise Exception(...)`
ExpiredDomSetup ==
    /\ DomSetup(IF SessionExpired THEN "no_link" ELSE "ok")
    /\ loaded' = IF SessionExpired THEN loaded ELSE Min(remote_n, chunk)
    /\ UNCHANGED <<remote_n, chunk, batchVars, otherVars>>

ExpiredDomPass ==
    /\ DomPass(Window)
    /\ loaded' = IF pc' = "dom_loop" /\ ~SessionExpired
                 THEN Min(remote_n, loaded + chunk) ELSE loaded
    /\ UNCHANGED <<remote_n, chunk, batchVars, otherVars>>

ExpiredDomRaises ==
    /\ SessionExpired
    /\ DomRaises
    /\ UNCHANGED <<surfaceVars, batchVars, otherVars>>

ExpiredDomReturn == DomReturn /\ UNCHANGED <<surfaceVars, batchVars, otherVars>>

ExpiredInit ==
    /\ HarvestInit
    /\ fn \in {"api", "dom"}
    /\ fn = "api" => session_cookies \in {jar \in CookieJars : ~FalsyStr(CsrfToken(jar))}
    /\ remote_n \in 0..MaxHandles
    /\ chunk \in 1..MaxChunk
    /\ loaded = 0
    /\ NoBatch
    /\ NoCaller
    /\ NoJob
    /\ NoEndpoint
    /\ expired_during \in {"none", fn}
    /\ NoFlight
    /\ NoPool
    /\ NoDb
    /\ NoTrace
    /\ NoStore

ExpiredNext ==
    \/ Expire
    \/ ExpiredApiSetup
    \/ ExpiredApiPage
    \/ ExpiredApiReturn
    \/ ExpiredDomSetup
    \/ ExpiredDomPass
    \/ ExpiredDomRaises
    \/ ExpiredDomReturn

SpecExpired == ExpiredInit /\ [][ExpiredNext]_vars

\* C17: a job whose session expired while the endpoint strategy ran, or
\* before it ran, starts no other strategy: the scraper of the rendered
\* surface, and with it a second browser, is never called, and the job
\* ends with a failure.
C17_ExpiredSurfacedImmediately ==
    expired_during = "api" =>
        /\ rendered_runs = 0
        /\ pc = "done" => HarvestFailed


\* ------------------------------------------------------------------------
\* The executor of the blocking jobs
\* ------------------------------------------------------------------------
\* `executor = ThreadPoolExecutor(max_workers=3)`: every endpoint hands its
\* blocking function to this one pool with loop.run_in_executor; a worker
\* thread takes the oldest work item when it has none, and runs it to its
\* return.
BlockingJobs ==
    {"instagram_login", "instagram_get_followers", "instagram_get_following",
     "instagram_unfollow_batch"}

\* Mutant of WorkerFree: a thread is started for every work item.
WorkerAlwaysFree == TRUE

\* A thread of the pool has no work item.
WorkerFree == Cardinality(running) < max_workers

\* `await loop.run_in_executor(executor, function, ...)`
run_in_executor(function) ==
    /\ submissions < MaxJobs
    /\ submissions' = submissions + 1
    /\ work_queue' = Append(work_queue, [id |-> submissions + 1, function |-> function])
    /\ UNCHANGED running

WorkerTake ==
    /\ WorkerFree
    /\ work_queue # <<>>
    /\ running' = running \cup {Head(work_queue)}
    /\ work_queue' = Tail(work_queue)
    /\ UNCHANGED submissions

WorkerDone(item) ==
    /\ item \in running
    /\ running' = running \ {item}
    /\ UNCHANGED <<work_queue, submissions>>

PoolInit ==
    /\ NoHarvest
    /\ session_cookies = <<>>
    /\ is_logged_in = FALSE
    /\ NoBatch
    /\ NoOther

PoolNext ==
    \/ \E function \in BlockingJobs :
           /\ run_in_executor(function)
           /\ UNCHANGED <<harvestVars, surfaceVars, batchVars, callerVars, resourceVars,
                          endpointVars, platformVars, flightVars,
                          dbVars, traceVars, storeVars>>
    \/ /\ WorkerTake
       /\ UNCHANGED <<harvestVars, surfaceVars, batchVars, callerVars, resourceVars,
                      endpointVars, platformVars, flightVars,
                          dbVars, traceVars, storeVars>>
    \/ \E item \in running :
           /\ WorkerDone(item)
           /\ UNCHANGED <<harvestVars, surfaceVars, batchVars, callerVars, resourceVars,
                          endpointVars, platformVars, flightVars,
                          dbVars, traceVars, storeVars>>

SpecPool == PoolInit /\ [][PoolNext]_vars

\* C18: at any time at most max_workers = 3 of the submitted blocking jobs
\* run, and the jobs that run were submitted before every job that waits:
\* a job submitted while three run waits in the queue.
C18_AtMostThreeRunning ==
    /\ Cardinality(running) <= max_workers
    /\ \A item \in running : \A k \in 1..Len(work_queue) : item.id < work_queue[k].id

\* Three jobs run and a fourth waits.
C18_Witness == Cardinality(running) = max_workers /\ work_queue # <<>>


\* ------------------------------------------------------------------------
\* The calls of a batch, one step for the call and one for its return
\* ------------------------------------------------------------------------
\* instagram_unfollow_batch and instagram_unfollow_batch_api call the
\* unfollow function in the body of a for loop; the call blocks, and the
\* body goes on (append, counters, sleep) when it returns.
Others == <<harvestVars, surfaceVars, callerVars, resourceVars, endpointVars,
            platformVars, poolVars, dbVars, traceVars, storeVars>>

\* Mutant of CallReturned: the loop goes to the next call without the
\* return of the one it made.
CallNotAwaited == batch_pc \in {"loop", "call"}

\* The for statement is at the top of its body.
CallReturned == batch_pc = "loop"

\* `result = instagram_unfollow_user(username, ...)` /
\* `result = instagram_unfollow_user_api(user_id, username, ...)`: the call begins.
CallUnfollow ==
    /\ batch_fn \in {"sync", "api"}
    /\ CallReturned
    /\ ~EndOfBatch
    /\ batch_fn = "api" => ~FalsyId(user_data[i + 1].user_id)
    /\ batch_pc' = "call"
    /\ in_flight' = in_flight + 1
    /\ handled' = Append(handled, IF batch_fn = "api" THEN user_data[i + 1].username
                                  ELSE user_data[i + 1])
    /\ UNCHANGED <<batch_fn, user_data, i, results, successful, failed, batch_result, now,
                   delays>>

\* Mutant of IndexAfter: an item whose call failed is taken again.
RetryAfterFailure(r) == IF r.success THEN i + 1 ELSE i

\* `for i, user in enumerate(user_data)`: the next iteration has the next item.
IndexAfter(r) == i + 1

\* The call returns r: the rest of the body.
RecordOutcome(r) ==
    /\ batch_pc = "call"
    /\ batch_pc' = "loop"
    /\ in_flight' = in_flight - 1
    /\ results' = Append(results, r)
    /\ successful' = SuccessfulAfter(r)
    /\ failed' = FailedAfter(r)
    /\ delays' = SleepUnlessLast
    /\ i' = IndexAfter(r)
    /\ now' = now + 1
    /\ UNCHANGED <<batch_fn, user_data, batch_result, handled>>

UnfollowReturns(outcome) ==
    /\ batch_fn = "sync"
    /\ RecordOutcome(instagram_unfollow_user(user_data[i + 1], outcome, now))

UnfollowApiReturns(response) ==
    /\ batch_fn = "api"
    /\ RecordOutcome(instagram_unfollow_user_api(user_data[i + 1].user_id,
                                                 user_data[i + 1].username,
                                                 session_cookies, response, now))

\* `if not user_id: ... results.append(result); failed += 1; continue`: no call.
SkipWithoutUserId ==
    /\ batch_fn = "api"
    /\ batch_pc = "loop"
    /\ ~EndOfBatch
    /\ FalsyId(user_data[i + 1].user_id)
    /\ results' = Append(results, [success |-> FALSE, username |-> user_data[i + 1].username,
                                   error |-> "No user_id available"])
    /\ failed' = failed + 1
    /\ i' = i + 1
    /\ now' = now + 1
    /\ UNCHANGED <<batch_fn, batch_pc, user_data, successful, batch_result, delays, handled,
                   in_flight>>

CallsInit ==
    /\ BatchInit
    /\ batch_fn \in {"sync", "api"}

CallsNext ==
    \/ CallUnfollow /\ UNCHANGED Others
    \/ \E outcome \in {"ok", "no_button", "no_option", "exception"} :
           UnfollowReturns(outcome) /\ UNCHANGED Others
    \/ \E response \in {"ok", "unexpected", "bad_json", "http_error", "exception"} :
           UnfollowApiReturns(response) /\ UNCHANGED Others
    \/ SkipWithoutUserId /\ UNCHANGED Others
    \/ UnfollowBatchReturn /\ UNCHANGED <<Others, in_flight>>
    \/ UnfollowBatchApiReturn /\ UNCHANGED <<Others, in_flight>>

SpecCalls == CallsInit /\ [][CallsNext]_vars

\* C19: at most one call of a batch is in flight; when a call begins the
\* outcomes of all the items before its item are recorded, in input order,
\* and between calls every item the loop has passed has its outcome.
C19_OneActionInFlight ==
    /\ in_flight \in {0, 1}
    /\ Len(results) = i
    /\ \A k \in 1..Len(results) : results[k].username = HandleOf(user_data[k])
    /\ in_flight = 1 => /\ handled # <<>>
                        /\ handled[Len(handled)] = HandleOf(user_data[i + 1])

\* The second call is in flight, the outcome of the first is recorded.
C19_Witness == in_flight = 1 /\ Len(handled) = 2 /\ Len(results) >= 1


\* ------------------------------------------------------------------------
\* The strategy of a batch item
\* ------------------------------------------------------------------------
\* What the loop body does for an item: instagram_unfollow_batch calls
\* instagram_unfollow_user, which drives the profile page;
\* instagram_unfollow_batch_api calls instagram_unfollow_user_api when the
\* item has a user_id and makes no call when it has none;
\* InstagramBot.unfollow_batch calls unfollow_user, which drives the page.
StrategyOfItem(function, item) ==
    CASE function = "sync" -> "rendered"
      [] function = "api" -> (IF FalsyId(item.user_id) THEN "none" ELSE "endpoint")
      [] OTHER -> "rendered"

\* The batch function was given the remote id of the item.
UserIdKnown(item) == batch_fn = "api" /\ ~FalsyId(item.user_id)

\* C20: for every item a batch has handled, the endpoint was called when
\* the user_id of the item was known, and the rendered surface was driven
\* when it was not.
C20_StrategyPerItem ==
    batch_fn \in {"sync", "api"} =>
        \A k \in 1..Len(handled) :
            StrategyOfItem(batch_fn, user_data[k]) =
                (IF UserIdKnown(user_data[k]) THEN "endpoint" ELSE "rendered")


\* ------------------------------------------------------------------------
\* Claims on the calls of a batch (SpecCalls)
\* ------------------------------------------------------------------------
\* The items the loop has passed for which the body makes a call.
CalledItems ==
    {k \in 1..i : batch_fn = "sync" \/ ~FalsyId(user_data[k].user_id)}

\* Outcomes of a call that failed.
FailedCalls ==
    {k \in 1..Len(results) : ~results[k].success /\ results[k].error # "No user_id available"}

\* C21: the calls a batch has begun are one for each item it has passed
\* that has a call, plus the one in flight: an item whose call failed gets
\* no second call, neither the endpoint again nor the rendered surface.
C21_OneAttemptPerItem ==
    /\ Len(handled) = Cardinality(CalledItems) + in_flight
    /\ \A k \in FailedCalls : "method" \notin DOMAIN results[k]

\* An endpoint batch that ended after a call of it had failed and a later
\* item was called.
C21_Witness ==
    /\ batch_fn = "api"
    /\ batch_pc = "done"
    /\ \E k \in FailedCalls : k < Len(results) /\ results[k + 1].success


\* ------------------------------------------------------------------------
\* The endpoint unfollow_users
\* ------------------------------------------------------------------------
\* POST /api/actions/unfollow: the session row, the daily limit, then
\* instagram_unfollow_batch in the executor with request.usernames and
\* db_session.cookies, then one Action row per result and the User row of
\* every success, and db.commit().  user_data holds request.usernames;
\* session_cookies is the list object db_session.cookies, which the job is
\* handed; db_cookies is the column as the database has it.

\* Mutant of QuotaExceeded: the request is not measured against the limit.
QuotaNotChecked == FALSE

\* `if today_unfollows + len(request.usernames) > settings.max_daily_unfollows:`
QuotaExceeded == today_unfollows + Len(user_data) > max_daily_unfollows

\* Mutant of add_cookies: the list is emptied into the browser context.
add_cookies_drains(cookies) == <<>>

\* `context.add_cookies(session_cookies)`: the list as the call leaves it.
add_cookies(cookies) == cookies

UnfollowSubmit ==
    /\ endpoint = "unfollow_users"
    /\ http_status = 0
    /\ batch_pc = "idle"
    /\ IF ~db_session_active
       THEN /\ http_status' = StatusUnauthorized
            /\ UNCHANGED <<batch_pc, submitted>>
       ELSE IF QuotaExceeded
       THEN /\ http_status' = StatusTooManyRequests
            /\ UNCHANGED <<batch_pc, submitted>>
       ELSE /\ batch_pc' = "loop"
            /\ submitted' = Append(submitted, "instagram_unfollow_batch")
            /\ UNCHANGED http_status
    /\ UNCHANGED <<endpoint, db_session_active, batch_fn, user_data, i, results, successful,
                   failed, batch_result, now, delays, handled>>

\* One item of the batch: instagram_unfollow_user loads the cookies into
\* its browser context and drives the profile page.
UnfollowItem(outcome) ==
    /\ endpoint = "unfollow_users"
    /\ UnfollowBatchItem(outcome)
    /\ session_cookies' = add_cookies(session_cookies)

\* `for unfollow_result in batch_results: db.add(action) ...; db.commit()`
ActionOf(r) ==
    [action_type |-> "unfollow", username |-> r.username,
     status |-> IF r.success THEN "success" ELSE "failed"]

UnfollowRespond ==
    /\ endpoint = "unfollow_users"
    /\ http_status = 0
    /\ batch_pc = "done"
    /\ LET batch_results == batch_result.results
       IN /\ action_log' = action_log \o [k \in 1..Len(batch_results) |->
                                              ActionOf(batch_results[k])]
          /\ users_changed' = users_changed \cup
                 {batch_results[k].username : k \in {n \in 1..Len(batch_results) :
                                                        batch_results[n].success}}
    /\ http_status' = StatusOK
    /\ UNCHANGED <<endpoint, db_session_active, submitted, db_cookies, today_unfollows>>

NotUnfollow == <<surfaceVars, callerVars, resourceVars, platformVars, flightVars, poolVars,
                 traceVars, storeVars>>

HarvestButCookies == <<fn, pc, limit, is_logged_in, api_followers, api_seen_usernames,
                       next_max_id, request_count, followers, seen_usernames,
                       scroll_attempts, no_new_users_count, passes_left, result, sighted,
                       resighted, rendered_runs, first_status, page_failure>>

UnfollowInit ==
    /\ NoHarvest
    /\ is_logged_in = FALSE
    /\ NoCaller
    /\ NoJob
    /\ NoExpiry
    /\ NoFlight
    /\ NoPool
    /\ NoTrace
    /\ NoStore
    /\ endpoint = "unfollow_users"
    /\ db_session_active \in BOOLEAN
    /\ submitted = <<>>
    /\ http_status = 0
    /\ db_cookies \in CookieJars
    /\ session_cookies = db_cookies
    /\ today_unfollows \in {0} \cup ((max_daily_unfollows - MaxBatch)..max_daily_unfollows)
    /\ action_log = <<>>
    /\ users_changed = {}
    /\ batch_fn = "sync"
    /\ batch_pc = "idle"
    /\ user_data \in SeqsUpTo(Handles, MaxBatch)
    /\ i = 0
    /\ results = <<>>
    /\ successful = 0
    /\ failed = 0
    /\ batch_result = NoResult
    /\ now = 0
    /\ delays = <<>>
    /\ handled = <<>>

UnfollowNext ==
    \/ UnfollowSubmit /\ UNCHANGED <<harvestVars, dbVars, NotUnfollow>>
    \/ \E outcome \in {"ok", "no_button", "no_option", "exception"} :
           UnfollowItem(outcome)
               /\ UNCHANGED <<HarvestButCookies, endpointVars, dbVars, NotUnfollow>>
    \/ UnfollowBatchReturn /\ UNCHANGED <<harvestVars, endpointVars, dbVars, NotUnfollow>>
    \/ UnfollowRespond /\ UNCHANGED <<harvestVars, batchVars, NotUnfollow>>

SpecUnfollow == UnfollowInit /\ [][UnfollowNext]_vars

AboveLimit == today_unfollows + Len(user_data) > max_daily_unfollows

C23_QuotaRejectsBeforeAnyAction ==
    (db_session_active /\ AboveLimit) =>
        /\ http_status \in {0, StatusTooManyRequests}
        /\ submitted = <<>>
        /\ batch_pc = "idle"
        /\ handled = <<>>
        /\ results = <<>>
        /\ action_log = <<>>
        /\ users_changed = {}

C23_Witness == db_session_active /\ AboveLimit /\ http_status = StatusTooManyRequests


\* ------------------------------------------------------------------------
\* Claims on the pages of the endpoint strategy (Spec)
\* ------------------------------------------------------------------------
\* Page requests of the job that were answered and read; a request that
\* fails is the last one of the job.
PagesRead == request_count - (IF page_failure = "none" THEN 0 ELSE 1)

\* C24 as stated: once a page has been read, the scraper of the rendered
\* surface is not called in the job.
C24_NoFallbackAfterAPage ==
    (fn = "api" /\ PagesRead >= 1) => rendered_runs = 0

\* C24 as the code has it: after a page has been read, the scraper of the
\* rendered surface is called exactly when a later page request is
\* answered with a status other than 200, and then the entities of the
\* pages read are dropped and the result is the scraper's alone; a later
\* request that raises, or a body that does not parse, ends the loop with
\* the entities kept.
C24_LaterRefusalFallsBack ==
    (fn = "api" /\ PagesRead >= 1) =>
        /\ rendered_runs = (IF page_failure = "status" THEN 1 ELSE 0)
        /\ page_failure = "status" =>
              /\ api_followers = <<>>
              /\ pc \in {"dom_setup", "dom_loop", "dom_exit", "done"}
              /\ pc = "done" => "method" \notin DOMAIN result
        /\ page_failure \in {"raises", "malformed"} =>
              /\ pc \in {"api_exit", "done"}
              /\ pc = "done" => result = ApiSuccess(api_followers, limit)

\* A job that read a page, was refused the next one and returned the list
\* of the scraper.
C24_Witness ==
    /\ fn = "api"
    /\ PagesRead >= 1
    /\ page_failure = "status"
    /\ Returned
    /\ Len(result.followers) >= 1


\* ------------------------------------------------------------------------
\* Claims on the loop of the rendered surface (Spec)
\* ------------------------------------------------------------------------
\* The loop is about to make an extraction pass.
PassAhead == pc = "dom_loop" \/ (pc = "bot_loop" /\ passes_left > 0)

\* C25: whenever the loop of the rendered surface is about to make an
\* extraction pass, the entities it holds are fewer than the upper bound.
C25_NoPassAtTheBound == PassAhead => Len(followers) < limit


\* ------------------------------------------------------------------------
\* A harvest job with its requests, responses, sleeps and passes recorded
\* ------------------------------------------------------------------------
NotTrace == <<surfaceVars, batchVars, callerVars, resourceVars, endpointVars, platformVars,
              flightVars, poolVars, dbVars, storeVars>>

\* What the endpoint may answer: one user at most per page, any cursor.
PageResponses ==
    [kind : {"raises"}, status : {0}, json_ok : {FALSE}, users : {<<>>},
     has_more : {FALSE}, next_max_id : {0}] \cup
    [kind : {"response"}, status : {StatusError}, json_ok : {FALSE}, users : {<<>>},
     has_more : {FALSE}, next_max_id : {0}] \cup
    [kind : {"response"}, status : {StatusOK}, json_ok : {FALSE}, users : {<<>>},
     has_more : {FALSE}, next_max_id : {0}] \cup
    [kind : {"response"}, status : {StatusOK}, json_ok : {TRUE},
     users : SeqsUpTo([username : Handles, full_name : {"A"}], 1),
     has_more : BOOLEAN, next_max_id : 0..MaxCursors]

\* Mutant of RequestCursor: the cursor of the first response is sent again.
FirstCursorAgain ==
    IF page_responses = <<>> THEN 0 ELSE page_responses[1].next_max_id

\* `if next_max_id: api_url += f"&max_id={next_max_id}"`
RequestCursor == next_max_id

\* Mutant of NapsAfter: the loop goes round without sleeping.
NoNap(continues) == naps

\* `time.sleep(random.uniform(0.5, 1))`, the last statement of the body of
\* both loops: reached when the iteration neither breaks nor returns.
NapsAfter(continues) == IF continues THEN naps + 1 ELSE naps

\* What a pass over user_links meets: elements that raise, handles not
\* seen before, and the entities the pass adds.
PassSummary(user_links) ==
    [raised |-> Cardinality({k \in 1..Len(user_links) : user_links[k].kind = "throws"}),
     unseen |-> Cardinality({UsernameFromHref(user_links[k].href) :
                                k \in {n \in 1..Len(user_links) : Readable(user_links[n])}}
                            \ seen_usernames),
     added |-> Len(followers') - Len(followers)]

PagesApiSetup ==
    /\ ApiSetup("ok")
    /\ UNCHANGED <<traceVars, NotTrace>>

PagesApiPage ==
    /\ \E resp \in PageResponses :
           /\ ApiPage(resp)
           /\ page_responses' = Append(page_responses,
                  [failure |-> PageFailure(resp), has_more |-> resp.has_more,
                   next_max_id |-> resp.next_max_id])
    /\ page_requests' = Append(page_requests,
                               [max_id |-> RequestCursor, held |-> Len(api_followers)])
    /\ naps' = NapsAfter(pc' = "api_loop")
    /\ discarded' = IF pc' = "dom_setup" THEN api_followers ELSE discarded
    /\ UNCHANGED <<last_pass, NotTrace>>

PagesApiReturn ==
    /\ ApiReturn
    /\ UNCHANGED <<traceVars, NotTrace>>

PagesDomSetup ==
    /\ fn = "dom"
    /\ DomSetup("ok")
    /\ UNCHANGED <<traceVars, NotTrace>>

PagesDomPass ==
    /\ \E user_links \in SeqsUpTo(Elements, MaxLinks) :
           /\ DomPass(user_links)
           /\ last_pass' = PassSummary(user_links)
    /\ naps' = NapsAfter(pc' = "dom_loop")
    /\ UNCHANGED <<page_requests, page_responses, discarded, NotTrace>>

PagesDomReturn ==
    /\ DomReturn
    /\ UNCHANGED <<traceVars, NotTrace>>

PagesInit ==
    /\ HarvestInit
    /\ fn \in {"api", "dom"}
    /\ fn = "api" => session_cookies \in {jar \in CookieJars : ~FalsyStr(CsrfToken(jar))}
    /\ remote_n = 0
    /\ chunk = 0
    /\ loaded = 0
    /\ NoBatch
    /\ NoOther

PagesNext ==
    \/ PagesApiSetup
    \/ PagesApiPage
    \/ PagesApiReturn
    \/ PagesDomSetup
    \/ PagesDomPass
    \/ PagesDomReturn

SpecPages == PagesInit /\ [][PagesNext]_vars


\* C26: every page request was made with fewer entities held than the
\* upper bound (none at all when the bound is 0), and every response but
\* the last one of the job was read, reported more and carried a cursor:
\* after a page that reports no more, or carries no cursor, no request
\* follows.
C26_NoRequestPastTheEnd ==
    /\ \A k \in 1..Len(page_requests) : page_requests[k].held < limit
    /\ limit = 0 => page_requests = <<>>
    /\ \A k \in 1..(Len(page_responses) - 1) :
           /\ page_responses[k].failure = "none"
           /\ page_responses[k].has_more
           /\ page_responses[k].next_max_id # 0

\* A job that returned after a second page which reported more but
\* carried no cursor.
C26_Witness ==
    /\ pc = "done"
    /\ Len(page_responses) = 2
    /\ page_responses[2].failure = "none"
    /\ page_responses[2].has_more
    /\ page_responses[2].next_max_id = 0

\* C28: the first page request carries no cursor and every later one the
\* next_max_id of the response just before it.
C28_CursorChain ==
    \A k \in 1..Len(page_requests) :
        page_requests[k].max_id = (IF k = 1 THEN 0 ELSE page_responses[k - 1].next_max_id)

\* Three requests, the third with another cursor than the second.
C28_Witness ==
    /\ Len(page_requests) = 3
    /\ page_requests[2].max_id # page_requests[3].max_id

\* C29: a sleep separates every two consecutive page requests and every
\* two consecutive extraction passes: when the loop is about to go round
\* again it has slept once for each iteration made.
C29_SleepBetweenIterations ==
    /\ fn = "api" => /\ naps >= request_count - 1
                     /\ pc = "api_loop" => naps = request_count
    /\ fn = "dom" => /\ naps >= scroll_attempts - 1
                     /\ pc = "dom_loop" => naps = scroll_attempts

\* A job that made three page requests and slept twice.
C29_Witness == fn = "api" /\ pc = "done" /\ request_count = 3 /\ naps = 2

\* C30: a pass adds one entity for every handle it shows that was not
\* seen before, whether or not other elements of the pass raise.
C30_ThrowSkipsOneElement == last_pass.added = last_pass.unseen

\* A pass in which an element raised and an entity was added, the loop
\* going on.
C30_Witness == pc = "dom_loop" /\ last_pass.raised >= 1 /\ last_pass.added >= 1


\* ------------------------------------------------------------------------
\* The end of the pagination (Spec)
\* ------------------------------------------------------------------------
\* The while loop would make one more page request.
LoopOpen == fn = "api" /\ pc = "api_loop" /\ Len(api_followers) < limit

\* C27: the pagination has a ceiling on its page requests; MaxRequests
\* stands for it, whatever its value: once that many pages were requested
\* and read, the loop is over and makes no further request.
C27_CeilingOnRequests ==
    (fn = "api" /\ request_count = MaxRequests /\ page_failure = "none") => ~LoopOpen


\* ------------------------------------------------------------------------
\* A job of instagram_get_followers_api with the entities it drops on
\* fallback recorded
\* ------------------------------------------------------------------------
FallbackApiSetup ==
    /\ \E profile \in {"ok", "no_user_id", "error"} : ApiSetup(profile)
    /\ UNCHANGED <<traceVars, NotTrace>>

FallbackApiPage ==
    /\ \E resp \in PageResponses : ApiPage(resp)
    /\ discarded' = IF pc' = "dom_setup" THEN api_followers ELSE discarded
    /\ UNCHANGED <<page_requests, page_responses, naps, last_pass, NotTrace>>

FallbackApiReturn ==
    /\ ApiReturn
    /\ UNCHANGED <<traceVars, NotTrace>>

FallbackDomSetup ==
    /\ \E outcome \in {"ok", "no_link", "no_dialog", "exception"} : DomSetup(outcome)
    /\ UNCHANGED <<traceVars, NotTrace>>

FallbackDomPass ==
    /\ \E user_links \in SeqsUpTo(Elements, MaxLinks) : DomPass(user_links)
    /\ UNCHANGED <<traceVars, NotTrace>>

FallbackDomReturn ==
    /\ DomReturn
    /\ UNCHANGED <<traceVars, NotTrace>>

FallbackInit ==
    /\ HarvestInit
    /\ fn = "api"
    /\ remote_n = 0
    /\ chunk = 0
    /\ loaded = 0
    /\ NoBatch
    /\ NoOther

FallbackNext ==
    \/ FallbackApiSetup
    \/ FallbackApiPage
    \/ FallbackApiReturn
    \/ FallbackDomSetup
    \/ FallbackDomPass
    \/ FallbackDomReturn

SpecFallback == FallbackInit /\ [][FallbackNext]_vars

\* The entity at position k of the returned list carries a user_id.
HasUserId(k) == "user_id" \in DOMAIN result.followers[k]

C32_OutcomeFields ==
    batch_fn \in {"sync", "api"} =>
        \A k \in 1..Len(results) :
            /\ {"username", "success", "timestamp"} \subseteq DOMAIN results[k]
            /\ ~results[k].success => "error" \in DOMAIN results[k]


\* ------------------------------------------------------------------------
\* The HTTP handlers of main.py over the users and sessions tables
\* ------------------------------------------------------------------------
\* A handler is `async def`: it runs on the event loop from one await to
\* the next without interleaving, so the part before
\* `await loop.run_in_executor(...)` is one step and the part after it
\* another.  The harvest or batch the executor runs is the environment
\* here: it gives back a failure or a list of distinct handles.
\* A row of users holds the relationship flags; full_name, is_verified
\* and the other columns are copied from the entity and read by no
\* handler modelled (the requests to get_non_followers are made with
\* exclude_verified = False and min_followers = 0).
\* ------------------------------------------------------------------------
\* models.py: the columns of class User.
UserColumns ==
    {"id", "username", "user_id", "full_name", "profile_pic_url", "is_verified",
     "follower_count", "following_count", "is_following_me", "i_am_following",
     "created_at", "updated_at"}

\* Reading or passing an attribute the mapped class does not declare
\* raises (AttributeError on the class or the instance, TypeError in the
\* constructor).
UserHas(column) == column \in UserColumns

\* `User(username=..., user_id=...)`: the flags default to False.
NewUser == [exists |-> TRUE, is_following_me |-> FALSE, i_am_following |-> FALSE]

\* Mutant of ResetFlags: the flags of earlier harvests are left as they are.
ResetFlagsSkipped(table, flags) == table

\* `db.query(User).update({User.<flag>: False ...}); db.commit()`
ResetFlags(table, flags) ==
    [h \in Handles |->
        [c \in DOMAIN table[h] |-> IF c \in flags THEN FALSE ELSE table[h][c]]]

\* `for follower in followers:` set the flag of the existing row, or add
\* a row with the flag set.
RECURSIVE StoreEntities(_, _, _)
StoreEntities(table, list, flag) ==
    IF list = <<>> THEN table
    ELSE LET row == IF table[Head(list)].exists THEN table[Head(list)] ELSE NewUser
         IN StoreEntities([table EXCEPT ![Head(list)] = [row EXCEPT ![flag] = TRUE]],
                          Tail(list), flag)

\* `user.i_am_following = False` for the row, if any, of each username.
RECURSIVE UnfollowedRows(_, _)
UnfollowedRows(table, names) ==
    IF names = <<>> THEN table
    ELSE UnfollowedRows(
             IF table[Head(names)].exists
             THEN [table EXCEPT ![Head(names)].i_am_following = FALSE]
             ELSE table,
             Tail(names))

\* What the executor gives back for a harvest.
HarvestLists == {l \in SeqsUpTo(Handles, MaxHandles) : \A j, k \in 1..Len(l) : l[j] = l[k] => j = k}
HarvestResults ==
    [success : {FALSE}, list : {<<>>}] \cup [success : {TRUE}, list : HarvestLists]

\* Mutant of SessionActive: the handlers serve any session id.
SessionNotChecked(sid) == TRUE

\* `db.query(DBSession).filter(session_id == ..., is_active == True).first()`
SessionActive(sid) == sessions[sid] = "active"

FlagOf(e) == IF e = "get_followers" THEN "is_following_me" ELSE "i_am_following"

Received(e, sid, stage, usernames) ==
    [endpoint |-> e, sid |-> sid, stage |-> stage, usernames |-> usernames,
     held |-> <<>>, before |-> users_table, jobs |-> 1,
     stale |-> (sid \in logged_out \/ sessions[sid] = "none")]

Answer(e, sid, status, body, before, jobs, stale) ==
    [endpoint |-> e, sid |-> sid, status |-> status, body |-> body,
     before |-> before, jobs |-> jobs, stale |-> stale]

\* The response to the request of slot s.
AnswerCall(s, status, body) ==
    Answer(calls[s].endpoint, calls[s].sid, status, body, calls[s].before,
           calls[s].jobs, calls[s].stale)

\* `raise HTTPException(status_code=401, ...)` before anything is submitted.
Unauthorized(e, sid) ==
    Answer(e, sid, StatusUnauthorized, <<>>, users_table, 0,
           sid \in logged_out \/ sessions[sid] = "none")

\* `str(uuid.uuid4())`: an id that no row holds and no logout has named.
FreshIds == {sid \in SessionIds : sessions[sid] = "none" /\ sid \notin logged_out}

\* login: instagram_login runs in the executor; on success a session row
\* with a fresh uuid is added.
Login(success) ==
    /\ FreshIds # {}
    /\ LET sid == CHOOSE x \in FreshIds : \A y \in FreshIds : x <= y
       IN /\ sessions' = IF success THEN [sessions EXCEPT ![sid] = "active"] ELSE sessions
          /\ reply' = Answer("login", sid, StatusOK, <<>>, users_table, 1, FALSE)
    /\ UNCHANGED <<users_table, calls, logged_out, today_unfollows>>

\* logout: `if db_session: db_session.is_active = False; db.commit()`.
Logout(sid) ==
    /\ sessions' = IF sessions[sid] # "none" THEN [sessions EXCEPT ![sid] = "inactive"]
                   ELSE sessions
    /\ logged_out' = logged_out \cup {sid}
    /\ reply' = Answer("logout", sid, StatusOK, <<>>, users_table, 0, FALSE)
    /\ UNCHANGED <<users_table, calls, today_unfollows>>

\* get_followers / get_following up to the await.
HarvestReceive(s, e, sid) ==
    /\ calls[s] = NoCall
    /\ IF ~SessionActive(sid)
       THEN /\ reply' = Unauthorized(e, sid)
            /\ UNCHANGED calls
       ELSE /\ calls' = [calls EXCEPT ![s] = Received(e, sid, "harvest", <<>>)]
            /\ reply' = NoReply
    /\ UNCHANGED <<users_table, sessions, logged_out, today_unfollows>>

\* get_followers / get_following after the await.
HarvestRespond(s, res) ==
    /\ calls[s].endpoint \in {"get_followers", "get_following"}
    /\ IF ~res.success
       THEN /\ reply' = AnswerCall(s, StatusServerError, <<>>)
            /\ UNCHANGED users_table
       ELSE /\ users_table' = StoreEntities(ResetFlags(users_table, {FlagOf(calls[s].endpoint)}),
                                      res.list, FlagOf(calls[s].endpoint))
            /\ reply' = AnswerCall(s, StatusOK, res.list)
    /\ calls' = [calls EXCEPT ![s] = NoCall]
    /\ UNCHANGED <<sessions, logged_out, today_unfollows>>

\* complete_analysis up to the first await: the session test, the reset
\* of both flags with its commit, and the followers harvest submitted.
AnalysisReceive(s, sid) ==
    /\ calls[s] = NoCall
    /\ IF ~SessionActive(sid)
       THEN /\ reply' = Unauthorized("complete_analysis", sid)
            /\ UNCHANGED <<calls, users_table>>
       ELSE /\ users_table' = ResetFlags(users_table, {"is_following_me", "i_am_following"})
            /\ calls' = [calls EXCEPT ![s] = Received("complete_analysis", sid, "followers", <<>>)]
            /\ reply' = NoReply
    /\ UNCHANGED <<sessions, logged_out, today_unfollows>>

\* complete_analysis between its two awaits.
AnalysisFollowers(s, res) ==
    /\ calls[s].endpoint = "complete_analysis"
    /\ calls[s].stage = "followers"
    /\ IF ~res.success
       THEN /\ reply' = AnswerCall(s, StatusServerError, <<>>)
            /\ calls' = [calls EXCEPT ![s] = NoCall]
       ELSE /\ calls' = [calls EXCEPT ![s].held = res.list, ![s].stage = "following",
                                        ![s].jobs = @ + 1]
            /\ reply' = NoReply
    /\ UNCHANGED <<users_table, sessions, logged_out, today_unfollows>>

\* complete_analysis after the second await: both lists are stored.
AnalysisFollowing(s, res) ==
    /\ calls[s].endpoint = "complete_analysis"
    /\ calls[s].stage = "following"
    /\ IF ~res.success
       THEN /\ reply' = AnswerCall(s, StatusServerError, <<>>)
            /\ UNCHANGED users_table
       ELSE /\ users_table' = StoreEntities(StoreEntities(users_table, calls[s].held, "is_following_me"),
                                      res.list, "i_am_following")
            /\ reply' = AnswerCall(s, StatusOK, calls[s].held)
    /\ calls' = [calls EXCEPT ![s] = NoCall]
    /\ UNCHANGED <<sessions, logged_out, today_unfollows>>

\* Mutant of OverQuota: the count of the day is not read.
OverQuotaNever(usernames) == FALSE

\* `if today_unfollows + len(request.usernames) > settings.max_daily_unfollows:`
OverQuota(usernames) == today_unfollows + Len(usernames) > max_daily_unfollows

\* unfollow_users up to the await.
UnfollowUsersReceive(s, sid, usernames) ==
    /\ calls[s] = NoCall
    /\ IF ~SessionActive(sid)
       THEN /\ reply' = Unauthorized("unfollow_users", sid)
            /\ UNCHANGED calls
       ELSE IF OverQuota(usernames)
       THEN /\ reply' = Answer("unfollow_users", sid, StatusTooManyRequests, <<>>, users_table, 0,
                               FALSE)
            /\ UNCHANGED calls
       ELSE /\ calls' = [calls EXCEPT ![s] = Received("unfollow_users", sid, "batch", usernames)]
            /\ reply' = NoReply
    /\ UNCHANGED <<users_table, sessions, logged_out, today_unfollows>>

\* The usernames at the positions of `done`, in order.
RECURSIVE Chosen(_, _, _)
Chosen(usernames, done, k) ==
    IF k > Len(usernames) THEN <<>>
    ELSE (IF k \in done THEN <<usernames[k]>> ELSE <<>>) \o Chosen(usernames, done, k + 1)

\* unfollow_users after the await: an Action row per result (status
\* 'success' for the positions of `done`), the flag of the rows
\* unfollowed cleared, one commit.
UnfollowUsersRespond(s, done) ==
    /\ calls[s].endpoint = "unfollow_users"
    /\ done \subseteq 1..Len(calls[s].usernames)
    /\ today_unfollows' = today_unfollows + Cardinality(done)
    /\ users_table' = UnfollowedRows(users_table, Chosen(calls[s].usernames, done, 1))
    /\ reply' = AnswerCall(s, StatusOK, Chosen(calls[s].usernames, done, 1))
    /\ calls' = [calls EXCEPT ![s] = NoCall]
    /\ UNCHANGED <<sessions, logged_out>>

\* add_to_whitelist: the first username raises, in `User(...,
\* is_whitelisted=True)` when it has no row and in `user.is_whitelisted`
\* when it has one, unless the class declares the column; the handler
\* rolls back and answers 500.
AddToWhitelist(usernames) ==
    /\ IF usernames # <<>> /\ ~UserHas("is_whitelisted")
       THEN /\ reply' = Answer("add_to_whitelist", 0, StatusServerError, <<>>, users_table, 0, FALSE)
            /\ UNCHANGED users_table
       ELSE /\ users_table' = [h \in Handles |->
                            IF \E k \in 1..Len(usernames) : usernames[k] = h
                            THEN [c \in DOMAIN NewUser \cup {"is_whitelisted"} |->
                                     IF c = "is_whitelisted" \/ c = "exists" THEN TRUE
                                     ELSE users_table[h][c]]
                            ELSE users_table[h]]
            /\ reply' = Answer("add_to_whitelist", 0, StatusOK, usernames, users_table, 0, FALSE)
    /\ UNCHANGED <<sessions, calls, logged_out, today_unfollows>>

\* remove_from_whitelist: a username without row goes to not_found; the
\* first one with a row raises in `user.is_whitelisted`.
RemoveFromWhitelist(usernames) ==
    /\ IF (\E k \in 1..Len(usernames) : users_table[usernames[k]].exists) /\ ~UserHas("is_whitelisted")
       THEN /\ reply' = Answer("remove_from_whitelist", 0, StatusServerError, <<>>, users_table, 0,
                               FALSE)
            /\ UNCHANGED users_table
       ELSE /\ users_table' = [h \in Handles |->
                            IF users_table[h].exists /\ \E k \in 1..Len(usernames) : usernames[k] = h
                            THEN [users_table[h] EXCEPT !.is_whitelisted = FALSE]
                            ELSE users_table[h]]
            /\ reply' = Answer("remove_from_whitelist", 0, StatusOK, usernames, users_table, 0, FALSE)
    /\ UNCHANGED <<sessions, calls, logged_out, today_unfollows>>

\* The handles of a set in increasing order.
RECURSIVE Listed(_)
Listed(set) ==
    IF set = {} THEN <<>>
    ELSE LET h == CHOOSE x \in set : \A y \in set : x <= y
         IN <<h>> \o Listed(set \ {h})

\* get_non_followers: the query names User.is_whitelisted, which raises
\* unless the class declares the column; `except Exception` answers 500.
GetNonFollowers ==
    /\ reply' = IF ~UserHas("is_whitelisted")
                THEN Answer("get_non_followers", 0, StatusServerError, <<>>, users_table, 0, FALSE)
                ELSE Answer("get_non_followers", 0, StatusOK,
                            Listed({h \in Handles : /\ users_table[h].exists
                                                    /\ users_table[h].i_am_following
                                                    /\ ~users_table[h].is_following_me
                                                    /\ ~users_table[h].is_whitelisted}),
                            users_table, 0, FALSE)
    /\ UNCHANGED <<users_table, sessions, calls, logged_out, today_unfollows>>

NotStore == <<harvestVars, surfaceVars, batchVars, callerVars, resourceVars, endpointVars,
              platformVars, flightVars, poolVars, traceVars, db_cookies, action_log,
              users_changed>>

StoreInit ==
    /\ NoHarvest
    /\ is_logged_in = FALSE
    /\ session_cookies = <<>>
    /\ NoBatch
    /\ NoCaller
    /\ NoJob
    /\ NoEndpoint
    /\ NoExpiry
    /\ NoFlight
    /\ NoPool
    /\ NoTrace
    /\ NoStore
    /\ db_cookies = <<>>
    /\ action_log = <<>>
    /\ users_changed = {}
    /\ today_unfollows = max_daily_unfollows - MaxNames

\* The requests of one client that waits for each answer.
StoreNext ==
    \/ \E success \in BOOLEAN : Login(success) /\ UNCHANGED NotStore
    \/ \E sid \in SessionIds : Logout(sid) /\ UNCHANGED NotStore
    \/ \E e \in {"get_followers", "get_following"}, sid \in SessionIds :
           HarvestReceive(1, e, sid) /\ UNCHANGED NotStore
    \/ \E res \in HarvestResults : HarvestRespond(1, res) /\ UNCHANGED NotStore
    \/ \E sid \in SessionIds : AnalysisReceive(1, sid) /\ UNCHANGED NotStore
    \/ \E res \in HarvestResults : AnalysisFollowers(1, res) /\ UNCHANGED NotStore
    \/ \E res \in HarvestResults : AnalysisFollowing(1, res) /\ UNCHANGED NotStore
    \/ \E sid \in SessionIds, usernames \in SeqsUpTo(Handles, MaxNames) :
           UnfollowUsersReceive(1, sid, usernames) /\ UNCHANGED NotStore
    \/ \E done \in SUBSET (1..MaxNames) : UnfollowUsersRespond(1, done) /\ UNCHANGED NotStore
    \/ \E usernames \in SeqsUpTo(Handles, 1) : AddToWhitelist(usernames) /\ UNCHANGED NotStore
    \/ \E usernames \in SeqsUpTo(Handles, 1) : RemoveFromWhitelist(usernames) /\ UNCHANGED NotStore
    \/ GetNonFollowers /\ UNCHANGED NotStore

SpecStore == StoreInit /\ [][StoreNext]_vars


\* ------------------------------------------------------------------------
\* Claims on the handlers and the tables (SpecStore)
\* ------------------------------------------------------------------------
\* The row of h is on the whitelist.
Whitelisted(h) ==
    "is_whitelisted" \in DOMAIN users_table[h] /\ users_table[h].is_whitelisted

\* The users followed that do not follow back and are not on the whitelist.
Eligible ==
    {h \in Handles : /\ users_table[h].exists
                     /\ users_table[h].i_am_following
                     /\ ~users_table[h].is_following_me
                     /\ ~Whitelisted(h)}

\* C33: a whitelist request is served, and a non-followers request is
\* answered with the users followed that do not follow back, those on the
\* whitelist left out and those taken off it included again.
C33_WhitelistHonoured ==
    /\ reply.endpoint \in {"add_to_whitelist", "remove_from_whitelist"} =>
           reply.status = StatusOK
    /\ reply.endpoint = "get_non_followers" =>
           /\ reply.status = StatusOK
           /\ reply.body = Listed(Eligible)


\* The usernames stored with the flag set.
Flagged(table, flag) == {h \in Handles : table[h].exists /\ table[h][flag]}
HandlesIn(list) == {list[k] : k \in 1..Len(list)}

\* C34: when get_followers (get_following) answers with a harvest, the
\* users stored with is_following_me (i_am_following) set are exactly the
\* handles of that harvest.
C34_FlagsMirrorTheHarvest ==
    /\ (reply.endpoint = "get_followers" /\ reply.status = StatusOK) =>
           Flagged(users_table, "is_following_me") = HandlesIn(reply.body)
    /\ (reply.endpoint = "get_following" /\ reply.status = StatusOK) =>
           Flagged(users_table, "i_am_following") = HandlesIn(reply.body)

\* A followers harvest answered without a handle that was stored as a
\* follower when the request came in.
C34_Witness ==
    /\ reply.endpoint = "get_followers"
    /\ reply.status = StatusOK
    /\ reply.body # <<>>
    /\ \E h \in Flagged(reply.before, "is_following_me") : h \notin HandlesIn(reply.body)


\* C36: when a harvest request is answered with a failure, the rows of
\* users are as they were when the request came in.
C36_FailureLeavesFlags ==
    (/\ reply.endpoint \in {"get_followers", "get_following", "complete_analysis"}
     /\ reply.status = StatusServerError) =>
        users_table = reply.before


\* The endpoints that test the session.
SessionEndpoints == {"get_followers", "get_following", "complete_analysis", "unfollow_users"}

\* C37: a request that comes in with a session id for which a logout was
\* answered, or that no login created, is answered 401 in the same step:
\* it submits nothing to the executor and is never left waiting.
C37_ClosedSessionRejected ==
    /\ (reply.endpoint \in SessionEndpoints /\ reply.stale) =>
           reply.status = StatusUnauthorized /\ reply.jobs = 0
    /\ \A s \in Slots : calls[s] # NoCall => ~calls[s].stale

\* An unfollow request rejected for a session that a login had created
\* and a logout closed.
C37_Witness ==
    /\ reply.endpoint = "unfollow_users"
    /\ reply.status = StatusUnauthorized
    /\ reply.sid \in logged_out
    /\ sessions[reply.sid] = "inactive"


\* ------------------------------------------------------------------------
\* Unfollow requests served concurrently
\* ------------------------------------------------------------------------
\* While a request waits for its batch in the executor (three workers),
\* the event loop serves the next one.
QuotaNext ==
    \/ \E success \in BOOLEAN : Login(success) /\ UNCHANGED NotStore
    \/ \E s \in Slots, sid \in SessionIds, usernames \in SeqsUpTo(Handles, MaxNames) :
           UnfollowUsersReceive(s, sid, usernames) /\ UNCHANGED NotStore
    \/ \E s \in Slots, done \in SUBSET (1..MaxNames) :
           UnfollowUsersRespond(s, done) /\ UNCHANGED NotStore

SpecQuota == StoreInit /\ [][QuotaNext]_vars

\* C35: the successful unfollow Actions logged for the day never exceed
\* max_daily_unfollows.
C35_QuotaNeverExceeded == today_unfollows <= max_daily_unfollows


\* ------------------------------------------------------------------------
\* Claims on the browsers of a harvest job (SpecJob)
\* ------------------------------------------------------------------------
\* C38: a job has one browser open at most, and none when it is about to
\* launch one: the browser of instagram_get_followers_api is closed
\* before the fallback launches its own.
C38_OneBrowserAtMost ==
    /\ browsers_open <= 1
    /\ rpc \in {"start", "create_context"} => browsers_open = 0

\* The fallback has its browser open after the handler of
\* instagram_get_followers_api closed the first one.
C38_Witness ==
    /\ exits = <<<<"followers_api", "exception">>>>
    /\ job = "followers"
    /\ launches = 2
    /\ browsers_open = 1


\* ------------------------------------------------------------------------
\* Claims on the seen set (Spec)
\* ------------------------------------------------------------------------
\* C39: in the three harvest loops, between passes and between pages, the
\* handles marked as seen are exactly the handles of the entities held.
C39_SeenIsHeld ==
    /\ seen_usernames = UsernamesOf(followers)
    /\ api_seen_usernames = UsernamesOf(api_followers)

\* The loop of the rendered surface goes on with two entities held, one
\* of them met again with other attributes and skipped as seen.
C39_Witness ==
    /\ pc = "dom_loop"
    /\ resighted
    /\ Cardinality(seen_usernames) = 2

====
